---------------------------- MODULE Spec2Model ----------------------------
(***************************************************************************)
(* A model of NCrystal's material configuration object (NC::MatCfg,        *)
(* ncrystal_core/src/NCMatCfg.cc): the typed parameter table, its          *)
(* reference-counted copy-on-write sharing, the access spies, the          *)
(* configuration-string parser and the serialisation.                      *)
(*                                                                         *)
(* Text is modelled as a sequence of one-character strings, so that        *)
(* trimming, splitting, unit-suffix detection and serialisation are        *)
(* computed character by character as the code does.  A double is modelled *)
(* as a normalised decimal floating point number m * 10^e (kind "num"), or *)
(* as NaN or an infinity; binary rounding is not modelled.  A number with  *)
(* more than nine significant digits keeps its digits as text (kind "big").*)
(***************************************************************************)
EXTENDS Integers, Sequences, FiniteSets, TLC

(***************************************************************************)
(* Characters and strings (NCString.hh)                                    *)
(***************************************************************************)

\* The printable ASCII characters 32..126 in code order (the backslash and the
\* backquote, which no input of the model uses, are left out).
Ascii ==
  <<" ","!","\"","#","$","%","&","'","(",")","*","+",",","-",".","/",
    "0","1","2","3","4","5","6","7","8","9",":",";","<","=",">","?",
    "@","A","B","C","D","E","F","G","H","I","J","K","L","M","N","O",
    "P","Q","R","S","T","U","V","W","X","Y","Z","[","]","^","_",
    "a","b","c","d","e","f","g","h","i","j","k","l","m","n","o",
    "p","q","r","s","t","u","v","w","x","y","z","{","|","}","~">>

AsciiSet == {Ascii[i] : i \in 1..Len(Ascii)}

\* Position of a character in the ASCII order (0 for a character outside it).
Ord(c) == IF c \in AsciiSet THEN CHOOSE i \in 1..Len(Ascii) : Ascii[i] = c ELSE 0

Range(s) == {s[i] : i \in 1..Len(s)}

\* std::string operator< : lexicographic comparison by character code.
RECURSIVE StrLess(_, _)
StrLess(a, b) ==
  IF b = <<>> THEN FALSE
  ELSE IF a = <<>> THEN TRUE
  ELSE IF Head(a) = Head(b) THEN StrLess(Tail(a), Tail(b))
  ELSE Ord(Head(a)) < Ord(Head(b))

isSimpleASCII(s, allow_tab, allow_newline) ==
  \A i \in 1..Len(s) :
     \/ s[i] \in AsciiSet
     \/ allow_tab /\ s[i] = "\t"
     \/ allow_newline /\ s[i] \in {"\n", "\r"}

IsWS(c) == c \in {" ", "\t", "\r", "\n"}

RECURSIVE ltrim(_)
ltrim(s) == IF s = <<>> THEN s ELSE IF IsWS(Head(s)) THEN ltrim(Tail(s)) ELSE s

RECURSIVE rtrim(_)
rtrim(s) ==
  IF s = <<>> THEN s
  ELSE IF IsWS(s[Len(s)]) THEN rtrim(SubSeq(s, 1, Len(s) - 1)) ELSE s

trim(s) == rtrim(ltrim(s))

contains(haystack, needle) == needle \in Range(haystack)

contains_any(haystack, needles) == Range(haystack) \cap Range(needles) # {}

contains_only(haystack, needles) == Range(haystack) \subseteq Range(needles)

startswith(str, substr) ==
  Len(str) >= Len(substr) /\ SubSeq(str, 1, Len(substr)) = substr

\* std::string::find(pattern): first position (1-based) of pattern, 0 for npos.
find(line, pattern) ==
  LET hits == {i \in 1..(Len(line) - Len(pattern) + 1) :
                  SubSeq(line, i, i + Len(pattern) - 1) = pattern}
  IN IF hits = {} THEN 0 ELSE CHOOSE i \in hits : \A j \in hits : i <= j

\* std::string::substr(pos) with a 1-based position.
substr(s, pos) == SubSeq(s, pos, Len(s))

IndexOf(s, c) ==
  LET hits == {i \in 1..Len(s) : s[i] = c}
  IN IF hits = {} THEN 0 ELSE CHOOSE i \in hits : \A j \in hits : i <= j

\* split(output,input,maxsplit,sep) with a separator character: empty parts
\* are kept, as in python's str.split(sep,maxsplit).
RECURSIVE splitsep(_, _, _, _)
splitsep(s, maxsplit, sep, ndone) ==
  LET i == IndexOf(s, sep)
  IN IF i = 0 \/ (maxsplit > 0 /\ ndone >= maxsplit) THEN <<s>>
     ELSE <<SubSeq(s, 1, i - 1)>> \o splitsep(substr(s, i + 1), maxsplit, sep, ndone + 1)

split(input, maxsplit, sep) == splitsep(input, maxsplit, sep, 0)

\* split(output,input) on general whitespace: empty parts are dropped.
RECURSIVE splitws(_)
splitws(s) ==
  LET t == ltrim(s)
      ws == {i \in 1..Len(t) : IsWS(t[i])}
      i == IF ws = {} THEN 0 ELSE CHOOSE k \in ws : \A j \in ws : k <= j
  IN IF t = <<>> THEN <<>>
     ELSE IF i = 0 THEN <<t>>
     ELSE <<SubSeq(t, 1, i - 1)>> \o splitws(substr(t, i + 1))

\* strreplace(str,oldtxt,newtxt) for one-character texts.
strreplace(str, oldc, newc) ==
  [i \in 1..Len(str) |-> IF str[i] = oldc THEN newc ELSE str[i]]

RECURSIVE joinstr(_, _)
joinstr(parts, separator) ==
  IF parts = <<>> THEN <<>>
  ELSE IF Len(parts) = 1 THEN parts[1]
  ELSE parts[1] \o separator \o joinstr(Tail(parts), separator)

\* basename: the text after the last '/' of the file name.
basename(filename) ==
  LET sl == {i \in 1..Len(filename) : filename[i] = "/"}
  IN IF sl = {} THEN filename
     ELSE substr(filename, (CHOOSE i \in sl : \A j \in sl : j <= i) + 1)

\* getfileext: the text after the last '.' of the file name ("" without one).
getfileext(filename) ==
  LET dots == {i \in 1..Len(filename) : filename[i] = "."}
  IN IF dots = {} THEN <<>>
     ELSE substr(filename, (CHOOSE i \in dots : \A j \in dots : j <= i) + 1)

(***************************************************************************)
(* Numbers: double as decimal floating point, str2dbl, str2int, operator<< *)
(***************************************************************************)

RECURSIVE Pow10(_)
Pow10(n) == IF n <= 0 THEN 1 ELSE 10 * Pow10(n - 1)

\* The normal form of m * 10^e: m carries no trailing zero, and 0 is 0 * 10^0.
RECURSIVE Norm(_, _)
Norm(m, e) ==
  IF m = 0 THEN [k |-> "num", m |-> 0, e |-> 0]
  ELSE IF m % 10 = 0 THEN Norm(m \div 10, e + 1)
  ELSE [k |-> "num", m |-> m, e |-> e]

NaN == [k |-> "nan", m |-> 0, e |-> 0]
Inf == [k |-> "inf", m |-> 1, e |-> 0]
NegInf == [k |-> "inf", m |-> -1, e |-> 0]

ncisnan(v) == v.k = "nan"
ncisinf(v) == v.k = "inf"

MinOf(a, b) == IF a <= b THEN a ELSE b

\* a + b
NumAdd(a, b) ==
  IF a.k = "nan" \/ b.k = "nan" THEN NaN
  ELSE IF a.k = "inf" /\ b.k = "inf" THEN (IF a.m = b.m THEN a ELSE NaN)
  ELSE IF a.k = "inf" THEN a
  ELSE IF b.k = "inf" THEN b
  ELSE IF a.m = 0 THEN b
  ELSE IF b.m = 0 THEN a
  ELSE Norm(a.m * Pow10(a.e - MinOf(a.e, b.e)) + b.m * Pow10(b.e - MinOf(a.e, b.e)),
            MinOf(a.e, b.e))

\* a * b
NumMul(a, b) ==
  IF a.k = "nan" \/ b.k = "nan" THEN NaN
  ELSE IF a = Norm(1, 0) THEN b
  ELSE IF b = Norm(1, 0) THEN a
  ELSE IF a.k = "inf" \/ b.k = "inf"
       THEN (IF a.m = 0 \/ b.m = 0 THEN NaN
             ELSE IF (a.m > 0) = (b.m > 0) THEN Inf ELSE NegInf)
  ELSE Norm(a.m * b.m, a.e + b.e)

\* The decimal order of magnitude of a finite nonzero number: the position
\* of its leading digit.
RECURSIVE NumDigits(_)
NumDigits(n) == IF n < 10 THEN 1 ELSE 1 + NumDigits(n \div 10)

Magnitude(a) == NumDigits(IF a.m < 0 THEN 0 - a.m ELSE a.m) + a.e

\* a < b for finite a and b of the same sign, neither 0.
SameSignLess(a, b, ma, mb) ==
  IF ma # mb THEN (IF a.m > 0 THEN ma < mb ELSE ma > mb)
  ELSE a.m * Pow10(a.e - MinOf(a.e, b.e)) < b.m * Pow10(b.e - MinOf(a.e, b.e))

\* a < b (false when either is NaN)
NumLess(a, b) ==
  IF a.k = "nan" \/ b.k = "nan" THEN FALSE
  ELSE IF a.k = "inf" THEN a.m < 0 /\ ~(b.k = "inf" /\ b.m < 0)
  ELSE IF b.k = "inf" THEN b.m > 0
  ELSE IF a.m <= 0 /\ b.m > 0 THEN TRUE
  ELSE IF a.m < 0 /\ b.m = 0 THEN TRUE
  ELSE IF a.m >= 0 /\ b.m <= 0 THEN FALSE
  ELSE SameSignLess(a, b, Magnitude(a), Magnitude(b))

NumLeq(a, b) == NumLess(a, b) \/ (a.k # "nan" /\ a = b)

Digits == <<"0","1","2","3","4","5","6","7","8","9">>
IsDigit(c) == c \in Range(Digits)
DigitVal(c) == (CHOOSE i \in 1..10 : Digits[i] = c) - 1

RECURSIVE DigitsToInt(_, _)
DigitsToInt(ds, acc) ==
  IF ds = <<>> THEN acc ELSE DigitsToInt(Tail(ds), 10 * acc + DigitVal(Head(ds)))

RECURSIVE IntToDigits(_)
IntToDigits(n) ==
  IF n < 10 THEN <<Digits[n + 1]>> ELSE IntToDigits(n \div 10) \o <<Digits[(n % 10) + 1]>>

AllDigits(s) == \A i \in 1..Len(s) : IsDigit(s[i])

\* str2int: an optional sign and decimal digits; anything else is BadInput.
str2int(s) ==
  LET Value(neg, body) ==
        IF body = <<>> \/ ~AllDigits(body) THEN [ok |-> FALSE, v |-> 0]
        ELSE [ok |-> TRUE, v |-> (IF neg THEN -1 ELSE 1) * DigitsToInt(body, 0)]
  IN Value(s # <<>> /\ Head(s) = "-",
           IF s # <<>> /\ Head(s) \in {"+", "-"} THEN Tail(s) ELSE s)

\* Digits without their leading zeros, and without their trailing zeros.
RECURSIVE StripLeadingZeros(_)
StripLeadingZeros(ds) ==
  IF ds # <<>> /\ Head(ds) = "0" THEN StripLeadingZeros(Tail(ds)) ELSE ds

RECURSIVE StripTrailingZeros(_)
StripTrailingZeros(ds) ==
  IF ds # <<>> /\ ds[Len(ds)] = "0"
  THEN StripTrailingZeros(SubSeq(ds, 1, Len(ds) - 1)) ELSE ds

\* The number (-1)^neg * ds * 10^e, ds being decimal digits: kind "num" when
\* its significant digits fit a machine integer of the model, else kind "big"
\* with the significant digits sd and the exponent of the last of them.
NumFromDigits(neg, ds, e) ==
  LET sd == StripTrailingZeros(StripLeadingZeros(ds))
      ee == e + (Len(StripLeadingZeros(ds)) - Len(sd))
  IN IF Len(sd) <= 9
     THEN Norm((IF neg THEN -1 ELSE 1) * DigitsToInt(sd, 0), ee)
     ELSE [k |-> "big", neg |-> neg, sd |-> sd, e |-> ee]

\* str2dbl: [+-] digits [. digits] [e [+-] digits], or inf or nan; anything
\* else (the empty string, a stray letter, blanks) is BadInput.
str2dbl(s) ==
  LET bad == [ok |-> FALSE, v |-> NaN]
      Value(neg, ip, fp, hasexp, ex) ==
        IF ~AllDigits(ip) \/ ~AllDigits(fp) \/ Len(ip) + Len(fp) = 0 THEN bad
        ELSE IF hasexp /\ ~ex.ok THEN bad
        ELSE [ok |-> TRUE,
              v |-> NumFromDigits(neg, ip \o fp, (IF hasexp THEN ex.v ELSE 0) - Len(fp))]
      Mantissa(neg, mant, dot, hasexp, ex) ==
        Value(neg, IF dot = 0 THEN mant ELSE SubSeq(mant, 1, dot - 1),
              IF dot = 0 THEN <<>> ELSE substr(mant, dot + 1), hasexp, ex)
      Exponent(neg, mant, expo, hasexp) ==
        Mantissa(neg, mant, IndexOf(mant, "."), hasexp, str2int(expo))
      Body(neg, body, epos) ==
        IF body = <<"i","n","f">> THEN [ok |-> TRUE, v |-> IF neg THEN NegInf ELSE Inf]
        ELSE IF body = <<"n","a","n">> THEN [ok |-> TRUE, v |-> NaN]
        ELSE Exponent(neg, IF epos = 0 THEN body ELSE SubSeq(body, 1, epos - 1),
                      IF epos = 0 THEN <<>> ELSE substr(body, epos + 1), epos # 0)
      FirstE(body, h) ==
        Body(s # <<>> /\ Head(s) = "-", body,
             IF h = {} THEN 0 ELSE CHOOSE i \in h : \A j \in h : i <= j)
      Signed(body) == FirstE(body, {i \in 1..Len(body) : body[i] \in {"e", "E"}})
  IN Signed(IF s # <<>> /\ Head(s) \in {"+", "-"} THEN Tail(s) ELSE s)

RECURSIVE Zeros(_)
Zeros(n) == IF n <= 0 THEN <<>> ELSE <<"0">> \o Zeros(n - 1)

\* The digits and the decimal exponent X of the leading digit, laid out as
\* the %g conversion does.
FmtDbl_layout(sign, ds, n, X, prec) ==
  IF X < -4 \/ X >= prec
  THEN sign \o <<ds[1]>> \o (IF n > 1 THEN <<".">> \o Tail(ds) ELSE <<>>)
       \o <<"e">> \o (IF X < 0 THEN <<"-">> ELSE <<"+">>)
       \o (IF X > -10 /\ X < 10 THEN <<"0">> ELSE <<>>)
       \o IntToDigits(IF X < 0 THEN 0 - X ELSE X)
  ELSE IF X < 0 THEN sign \o <<"0", ".">> \o Zeros(0 - X - 1) \o ds
  ELSE IF n <= X + 1 THEN sign \o ds \o Zeros(X + 1 - n)
  ELSE sign \o SubSeq(ds, 1, X + 1) \o <<".">> \o substr(ds, X + 2)

\* absm * 10^e rounded to the nearest number with cut digits fewer.
FmtDbl_round(absm, e, cut) ==
  Norm(absm \div Pow10(cut)
       + (IF cut > 0 /\ 2 * (absm % Pow10(cut)) >= Pow10(cut) THEN 1 ELSE 0),
       e + cut)

FmtDbl_rounded(sign, w, prec) ==
  FmtDbl_layout(sign, IntToDigits(w.m), NumDigits(w.m), NumDigits(w.m) - 1 + w.e, prec)

\* ds + 1 on decimal digits.
RECURSIVE IncDigits(_)
IncDigits(ds) ==
  IF ds = <<>> THEN <<"1">>
  ELSE IF ds[Len(ds)] = "9" THEN IncDigits(SubSeq(ds, 1, Len(ds) - 1)) \o <<"0">>
  ELSE SubSeq(ds, 1, Len(ds) - 1) \o <<Digits[DigitVal(ds[Len(ds)]) + 2]>>

\* The digits r that rounding to prec digits has left of the n digits of a
\* number of kind "big" with exponent e, laid out.
FmtDbl_big_layout(sign, r, n, e, prec) ==
  FmtDbl_layout(sign, StripTrailingZeros(r), Len(StripTrailingZeros(r)),
                n - 1 + e + (IF Len(r) > MinOf(n, prec) THEN 1 ELSE 0), prec)

\* A number of kind "big" rounded to the nearest number of prec digits.
FmtDbl_big(v, prec) ==
  FmtDbl_big_layout(IF v.neg THEN <<"-">> ELSE <<>>,
    IF Len(v.sd) > prec /\ DigitVal(v.sd[prec + 1]) >= 5
    THEN IncDigits(SubSeq(v.sd, 1, prec))
    ELSE SubSeq(v.sd, 1, MinOf(Len(v.sd), prec)),
    Len(v.sd), v.e, prec)

\* std::ostream << double with the stream's precision (the %g conversion):
\* at most prec significant digits, no trailing zeros, scientific notation
\* when the decimal exponent is below -4 or not below prec.
FmtDbl(v, prec) ==
  IF v.k = "nan" THEN <<"n","a","n">>
  ELSE IF v.k = "inf" THEN (IF v.m < 0 THEN <<"-","i","n","f">> ELSE <<"i","n","f">>)
  ELSE IF v.k = "big" THEN FmtDbl_big(v, prec)
  ELSE IF v.m = 0 THEN <<"0">>
  ELSE IF v.m < 0
  THEN FmtDbl_rounded(<<"-">>,
         FmtDbl_round(0 - v.m, v.e,
                      IF NumDigits(0 - v.m) > prec THEN NumDigits(0 - v.m) - prec ELSE 0),
         prec)
  ELSE FmtDbl_rounded(<<>>,
         FmtDbl_round(v.m, v.e,
                      IF NumDigits(v.m) > prec THEN NumDigits(v.m) - prec ELSE 0),
         prec)

FmtInt(n) == IF n < 0 THEN <<"-">> \o IntToDigits(0 - n) ELSE IntToDigits(n)

(***************************************************************************)
(* The parameter catalogue (MatCfg::Impl::PARAMETERS, parnames, partypes)  *)
(***************************************************************************)

PAR_FIRST == 0
PAR_absnfactory == 0
PAR_atomdb == 1
PAR_coh_elas == 2
PAR_dcutoff == 3
PAR_dcutoffup == 4
PAR_dir1 == 5
PAR_dir2 == 6
PAR_dirtol == 7
PAR_incoh_elas == 8
PAR_inelas == 9
PAR_infofactory == 10
PAR_lcaxis == 11
PAR_lcmode == 12
PAR_mos == 13
PAR_mosprec == 14
PAR_overridefileext == 15
PAR_packfact == 16
PAR_scatfactory == 17
PAR_sccutoff == 18
PAR_temp == 19
PAR_vdoslux == 20
PAR_NMAX == 21

PARAMETERS == PAR_FIRST..(PAR_NMAX - 1)

parnames_list ==
  <<<<"a","b","s","n","f","a","c","t","o","r","y">>,
    <<"a","t","o","m","d","b">>,
    <<"c","o","h","_","e","l","a","s">>,
    <<"d","c","u","t","o","f","f">>,
    <<"d","c","u","t","o","f","f","u","p">>,
    <<"d","i","r","1">>,
    <<"d","i","r","2">>,
    <<"d","i","r","t","o","l">>,
    <<"i","n","c","o","h","_","e","l","a","s">>,
    <<"i","n","e","l","a","s">>,
    <<"i","n","f","o","f","a","c","t","o","r","y">>,
    <<"l","c","a","x","i","s">>,
    <<"l","c","m","o","d","e">>,
    <<"m","o","s">>,
    <<"m","o","s","p","r","e","c">>,
    <<"o","v","e","r","r","i","d","e","f","i","l","e","e","x","t">>,
    <<"p","a","c","k","f","a","c","t">>,
    <<"s","c","a","t","f","a","c","t","o","r","y">>,
    <<"s","c","c","u","t","o","f","f">>,
    <<"t","e","m","p">>,
    <<"v","d","o","s","l","u","x">>>>

partypes_list ==
  <<"VALTYPE_STR", "VALTYPE_ATOMDB", "VALTYPE_BOOL",
    "VALTYPE_DBL", "VALTYPE_DBL", "VALTYPE_ORIENTDIR",
    "VALTYPE_ORIENTDIR", "VALTYPE_DBL", "VALTYPE_BOOL",
    "VALTYPE_STR", "VALTYPE_STR", "VALTYPE_VECTOR",
    "VALTYPE_INT", "VALTYPE_DBL", "VALTYPE_DBL",
    "VALTYPE_STR", "VALTYPE_DBL", "VALTYPE_STR",
    "VALTYPE_DBL", "VALTYPE_DBL", "VALTYPE_INT">>

parnames == [i \in PARAMETERS |-> parnames_list[i + 1]]
partypes == [i \in PARAMETERS |-> partypes_list[i + 1]]

\* The characters no parameter specification may hold.
NCMATCFG_FORBIDDEN_CHARS == <<"\"","'","|",">","<","(",")","{","}","[","]">>

Alpha ==
  {"a","b","c","d","e","f","g","h","i","j","k","l","m","n","o","p","q","r","s",
   "t","u","v","w","x","y","z","A","B","C","D","E","F","G","H","I","J","K","L",
   "M","N","O","P","Q","R","S","T","U","V","W","X","Y","Z"}

\* pi and the angle units in radians (kDeg = kPi/180, kArcMin = kDeg/60,
\* kArcSec = kArcMin/60), as decimals short enough that these three ratios
\* hold exactly.
kDeg == Norm(1745325, -8)
kArcMin == Norm(2908875, -10)
kArcSec == Norm(4848125, -12)
kPi == Norm(3141585, -6)

(***************************************************************************)
(* Parameter values (ValDbl, ValInt, ValBool, ValStr, ValAtomDB,           *)
(* ValOrientDir, ValVector).  NULL is an empty slot of m_parlist.          *)
(***************************************************************************)

NULL == [t |-> "null"]

\* Every parameter takes the suffixes of angles.
addUnitsForValType_angles(par) == "UnitAngle"

addUnitsForValType(par) ==
  IF par \in {PAR_mos, PAR_dirtol} THEN "UnitAngle"
  ELSE IF par = PAR_temp THEN "UnitTemp"
  ELSE IF par \in {PAR_dcutoff, PAR_dcutoffup} THEN "UnitLength"
  ELSE "UnitNone"

\* A value object as make_unique<ValType>() leaves it: strings and vectors
\* are empty, while the doubles, ints and bools are not initialised and hold
\* the indeterminate content g.
FreshVal(par, g) ==
  LET ty == partypes[par]
  IN IF ty = "VALTYPE_DBL"
     THEN [t |-> "dbl", value |-> g.dbl, unittype |-> addUnitsForValType(par),
           origstrrep |-> <<>>]
     ELSE IF ty = "VALTYPE_INT" THEN [t |-> "int", value |-> g.int]
     ELSE IF ty = "VALTYPE_BOOL" THEN [t |-> "bool", value |-> g.bool]
     ELSE IF ty = "VALTYPE_STR" THEN [t |-> "str", value |-> <<>>]
     ELSE IF ty = "VALTYPE_ATOMDB"
     THEN [t |-> "atomdb", value |-> <<>>, value_as_string |-> <<>>]
     ELSE IF ty = "VALTYPE_ORIENTDIR"
     THEN [t |-> "orientdir", crystal_is_hkl |-> g.bool,
           crystal |-> <<g.dbl, g.dbl, g.dbl>>, lab |-> <<g.dbl, g.dbl, g.dbl>>,
           origstrrep |-> <<>>]
     ELSE [t |-> "vector", val |-> <<g.dbl, g.dbl, g.dbl>>, origstrrep |-> <<>>]

\* A unit table that takes every suffix for factor 1 and offset 0.
UnitOf_plain(unittype, unit) ==
  [ok |-> TRUE, fact |-> Norm(1, 0), offset |-> Norm(0, 0)]

\* The factor and offset of a unit suffix; ok is false for u <= 0.
UnitOf(unittype, unit) ==
  LET one == Norm(1, 0)
      zero == Norm(0, 0)
      r(f, o) == [ok |-> TRUE, fact |-> f, offset |-> o]
  IN IF unittype = "UnitAngle" /\ unit = <<"r","a","d">> THEN r(one, zero)
     ELSE IF unittype = "UnitAngle" /\ unit = <<"d","e","g">> THEN r(kDeg, zero)
     ELSE IF unittype = "UnitAngle" /\ unit = <<"a","r","c","m","i","n">>
     THEN r(kArcMin, zero)
     ELSE IF unittype = "UnitAngle" /\ unit = <<"a","r","c","s","e","c">>
     THEN r(kArcSec, zero)
     ELSE IF unittype = "UnitLength" /\ unit = <<"A","a">> THEN r(one, zero)
     ELSE IF unittype = "UnitLength" /\ unit = <<"n","m">> THEN r(Norm(1, 1), zero)
     ELSE IF unittype = "UnitLength" /\ unit = <<"m","m">> THEN r(Norm(1, 7), zero)
     ELSE IF unittype = "UnitLength" /\ unit = <<"c","m">> THEN r(Norm(1, 8), zero)
     ELSE IF unittype = "UnitLength" /\ unit = <<"m">> THEN r(Norm(1, 10), zero)
     ELSE IF unittype = "UnitTemp" /\ unit = <<"K">> THEN r(one, zero)
     ELSE IF unittype = "UnitTemp" /\ unit = <<"C">> THEN r(one, Norm(27315, -2))
     ELSE IF unittype = "UnitTemp" /\ unit = <<"F">>
     THEN r(Norm(55556, -5), Norm(2553722, -4))
     ELSE [ok |-> FALSE, fact |-> one, offset |-> zero]

\* Each set / set_from_strrep returns [ok, val]: ok is false when the code
\* throws BadInput, and val is the value object as the call leaves it.
ValDbl_set(val, v) ==
  IF ncisnan(v) THEN [ok |-> FALSE, val |-> val]
  ELSE [ok |-> TRUE, val |-> [val EXCEPT !.value = v, !.origstrrep = <<>>]]

\* Number of leading characters left when the trailing letters are removed.
RECURSIVE UnitStart(_, _)
UnitStart(tmp, iunit) ==
  IF iunit > 0 /\ tmp[iunit] \in Alpha THEN UnitStart(tmp, iunit - 1) ELSE iunit

ValDbl_set_from_strrep(val, s) ==
  LET fail == [ok |-> FALSE, val |-> val]
      Store(r, tmporig) ==
        IF ~r.ok THEN fail
        ELSE [ok |-> TRUE, val |-> [r.val EXCEPT !.origstrrep = trim(tmporig)]]
      Convert(u, d, tmporig) ==
        IF ~u.ok THEN fail
        ELSE IF ~d.ok THEN fail
        ELSE Store(ValDbl_set(val, NumAdd(u.offset, NumMul(u.fact, d.v))), tmporig)
      WithUnit(tmp, unit) == Convert(UnitOf(val.unittype, unit), str2dbl(tmp), tmp \o unit)
      Split(tmp0, iunit) ==
        WithUnit(trim(SubSeq(tmp0, 1, iunit)), substr(tmp0, iunit + 1))
      Trimmed(tmp0) ==
        IF val.unittype # "UnitNone" /\ Len(tmp0) > 1 /\ tmp0[Len(tmp0)] \in Alpha
        THEN Split(tmp0, UnitStart(tmp0, Len(tmp0)))
        ELSE Convert([ok |-> TRUE, fact |-> Norm(1, 0), offset |-> Norm(0, 0)],
                     str2dbl(tmp0), s)
  IN Trimmed(trim(s))

ValInt_set_from_strrep(val, s) ==
  LET i == str2int(s)
  IN IF ~i.ok THEN [ok |-> FALSE, val |-> val]
     ELSE [ok |-> TRUE, val |-> [val EXCEPT !.value = i.v]]

ValBool_set_from_strrep(val, s) ==
  IF s \in {<<"t","r","u","e">>, <<"1">>}
  THEN [ok |-> TRUE, val |-> [val EXCEPT !.value = TRUE]]
  ELSE IF s \in {<<"f","a","l","s","e">>, <<"0">>}
  THEN [ok |-> TRUE, val |-> [val EXCEPT !.value = FALSE]]
  ELSE [ok |-> FALSE, val |-> val]

ValStr_set(val, s) ==
  IF ~isSimpleASCII(s, FALSE, FALSE) THEN [ok |-> FALSE, val |-> val]
  ELSE IF contains_any(s, NCMATCFG_FORBIDDEN_CHARS) \/ contains_any(s, <<"=", ";">>)
  THEN [ok |-> FALSE, val |-> val]
  ELSE [ok |-> TRUE, val |-> [val EXCEPT !.value = s]]

ValVector_set(val, x, y, z) ==
  IF ncisnan(x) \/ ncisnan(y) \/ ncisnan(z) THEN [ok |-> FALSE, val |-> val]
  ELSE [ok |-> TRUE, val |-> [val EXCEPT !.val = <<x, y, z>>, !.origstrrep = <<>>]]

ValVector_set_from_strrep(val, s) ==
  LET fail == [ok |-> FALSE, val |-> val]
      Store(r) ==
        IF ~r.ok THEN fail
        ELSE [ok |-> TRUE, val |-> [r.val EXCEPT !.origstrrep = trim(s)]]
      Numbers(v) ==
        IF \E i \in 1..3 : ~v[i].ok THEN fail
        ELSE Store(ValVector_set(val, v[1].v, v[2].v, v[3].v))
      Parts(parts) ==
        IF Len(parts) # 3 THEN fail
        ELSE Numbers([i \in 1..3 |-> str2dbl(trim(parts[i]))])
  IN Parts(split(trim(s), 0, ","))

ValOrientDir_set(val, cishkl, c, l) ==
  IF \E i \in 1..3 : ncisnan(c[i]) \/ ncisnan(l[i]) THEN [ok |-> FALSE, val |-> val]
  ELSE [ok |-> TRUE,
        val |-> [val EXCEPT !.crystal_is_hkl = cishkl, !.crystal = c, !.lab = l,
                            !.origstrrep = <<>>]]

ValOrientDir_set_from_strrep(val, s) ==
  LET fail == [ok |-> FALSE, val |-> val]
      Store(r) ==
        IF ~r.ok THEN fail
        ELSE [ok |-> TRUE, val |-> [r.val EXCEPT !.origstrrep = trim(s)]]
      Numbers(c_is_hkl, cv, lv) ==
        IF \E i \in 1..3 : ~cv[i].ok \/ ~lv[i].ok THEN fail
        ELSE Store(ValOrientDir_set(val, c_is_hkl = 1, [i \in 1..3 |-> cv[i].v],
                                    [i \in 1..3 |-> lv[i].v]))
      Split(c_is_hkl, partsc, partsl) ==
        IF Len(partsc) # 3 \/ Len(partsl) # 3 THEN fail
        ELSE Numbers(c_is_hkl, [i \in 1..3 |-> str2dbl(partsc[i])],
                     [i \in 1..3 |-> str2dbl(partsl[i])])
      Prefix(c0, l0, c_is_hkl) ==
        IF c_is_hkl = -1 \/ ~startswith(l0, <<"l","a","b",":">>) THEN fail
        ELSE Split(c_is_hkl,
                   split(trim(substr(c0, IF c_is_hkl = 0 THEN 6 ELSE 10)), 0, ","),
                   split(trim(substr(l0, 5)), 0, ","))
      Parts(parts) ==
        IF Len(parts) # 3 \/ parts[1] # <<>> THEN fail
        ELSE Prefix(parts[2], parts[3],
                    IF startswith(parts[2], <<"c","r","y","s",":">>) THEN 0
                    ELSE IF startswith(parts[2], <<"c","r","y","s","_","h","k","l",":">>)
                    THEN 1 ELSE -1)
  IN Parts(split(trim(s), 0, "@"))

\* validateAtomDBLine: the single word nodefaults, or an element label (a
\* word starting with a letter) followed by at least one more word.
validateAtomDBLine(line) ==
  \/ line = <<<<"n","o","d","e","f","a","u","l","t","s">>>>
  \/ Len(line) >= 2 /\ line[1] # <<>> /\ line[1][1] \in Alpha

ValAtomDB_to_strrep_impl(value) ==
  joinstr([i \in 1..Len(value) |-> joinstr(value[i], <<":">>)], <<"@">>)

\* ValAtomDB::set, from line iline on: acc holds the lines kept so far, nkept
\* their number.  A bad line throws and leaves value with the lines kept so far.
RECURSIVE ValAtomDB_set_loop(_, _, _)
ValAtomDB_set_loop(val, s, acc) ==
  IF s = <<>>
  THEN [ok |-> TRUE,
        val |-> [val EXCEPT !.value = acc,
                            !.value_as_string = ValAtomDB_to_strrep_impl(acc)]]
  ELSE
    LET line == Head(s)
        badword(w) == \/ ~isSimpleASCII(w, FALSE, FALSE)
                      \/ contains_any(w, NCMATCFG_FORBIDDEN_CHARS)
                      \/ contains_any(w, <<"=", ";">>)
        fail == [ok |-> FALSE, val |-> [val EXCEPT !.value = acc]]
    IN IF line = <<>> THEN ValAtomDB_set_loop(val, Tail(s), acc)
       ELSE IF \E i \in 1..Len(line) : badword(line[i]) THEN fail
       ELSE IF ~validateAtomDBLine(line) THEN fail
       ELSE IF line = <<<<"n","o","d","e","f","a","u","l","t","s">>>> /\ Len(acc) > 0
       THEN fail
       ELSE ValAtomDB_set_loop(val, Tail(s), Append(acc, line))

ValAtomDB_set(val, s) == ValAtomDB_set_loop(val, s, <<>>)

\* A set_from_strrep that keeps the text given as the string form.
ValAtomDB_set_from_strrep_raw(val, s) ==
  LET lines == split(s, 0, "@")
      r == ValAtomDB_set(val, [i \in 1..Len(lines) |-> splitws(strreplace(lines[i], ":", " "))])
  IN [r EXCEPT !.val.value_as_string = s]

ValAtomDB_set_from_strrep(val, s) ==
  LET lines == split(s, 0, "@")
  IN ValAtomDB_set(val, [i \in 1..Len(lines) |-> splitws(strreplace(lines[i], ":", " "))])

\* ValBase::set_from_strrep, dispatched on the dynamic type of the value.
set_from_strrep(val, s) ==
  IF val.t = "dbl" THEN ValDbl_set_from_strrep(val, s)
  ELSE IF val.t = "int" THEN ValInt_set_from_strrep(val, s)
  ELSE IF val.t = "bool" THEN ValBool_set_from_strrep(val, s)
  ELSE IF val.t = "str" THEN ValStr_set(val, s)
  ELSE IF val.t = "orientdir" THEN ValOrientDir_set_from_strrep(val, s)
  ELSE IF val.t = "vector" THEN ValVector_set_from_strrep(val, s)
  ELSE ValAtomDB_set_from_strrep(val, s)

\* ValType::set(v) of the scalar types, as setVal<ValType> calls it.
ValScalar_set(val, v) ==
  IF val.t = "dbl" THEN ValDbl_set(val, v)
  ELSE IF val.t = "str" THEN ValStr_set(val, v)
  ELSE [ok |-> TRUE, val |-> [val EXCEPT !.value = v]]

Fmt3(v, prec) == joinstr([i \in 1..3 |-> FmtDbl(v[i], prec)], <<",">>)

ValDbl_to_strrep(val, forcache) ==
  IF ~forcache /\ val.origstrrep # <<>> THEN val.origstrrep
  ELSE FmtDbl(val.value, IF forcache THEN 16 ELSE 6)

\* ValBase::to_strrep(forcache), dispatched on the dynamic type of the value.
to_strrep(val, forcache) ==
  IF val.t = "dbl" THEN ValDbl_to_strrep(val, forcache)
  ELSE IF val.t = "int" THEN FmtInt(val.value)
  ELSE IF val.t = "bool"
  THEN (IF val.value THEN <<"t","r","u","e">> ELSE <<"f","a","l","s","e">>)
  ELSE IF val.t = "str" THEN val.value
  ELSE IF val.t = "atomdb" THEN val.value_as_string
  ELSE IF val.t = "orientdir"
  THEN (IF val.origstrrep # <<>> THEN val.origstrrep
        ELSE (IF val.crystal_is_hkl THEN <<"@","c","r","y","s","_","h","k","l",":">>
              ELSE <<"@","c","r","y","s",":">>)
             \o Fmt3(val.crystal, 17) \o <<"@","l","a","b",":">> \o Fmt3(val.lab, 17))
  ELSE (IF val.origstrrep # <<>> THEN val.origstrrep ELSE Fmt3(val.val, 17))

(***************************************************************************)
(* MatCfg::Impl: the shared parameter table                                *)
(***************************************************************************)

\* Impl(): a table with every slot empty, no spy and refcount 0.
NewImpl ==
  [refCount |-> 0, m_spies |-> <<>>, m_parlist |-> [p \in PARAMETERS |-> NULL],
   m_datafile_resolved |-> <<>>, m_datafile_orig |-> <<>>, m_datafileext |-> <<>>,
   m_ignoredfilecfg |-> FALSE]

\* An ensureNoSpy that never throws.
ensureNoSpy_never(impl) == TRUE

\* ensureNoSpy: true when it returns, false when it throws LogicError.
ensureNoSpy(impl) == impl.m_spies = <<>>

\* triggerSpy: the parAccessed calls made, in order, as <<spy, name>> pairs.
RECURSIVE triggerSpy_from(_, _)
triggerSpy_from(spies, pn) ==
  IF spies = <<>> THEN <<>>
  ELSE <<<<Head(spies), pn>>>> \o triggerSpy_from(Tail(spies), pn)

\* A triggerSpy that stops after the first spy.
triggerSpy_first(impl, par) ==
  IF impl.m_spies = <<>> THEN <<>> ELSE <<<<Head(impl.m_spies), parnames[par]>>>>

triggerSpy(impl, par) == triggerSpy_from(impl.m_spies, parnames[par])

\* Impl(const Impl&): the clone cow() makes (the caller checks ensureNoSpy).
CloneImpl(o) ==
  [refCount |-> 0, m_spies |-> <<>>, m_parlist |-> o.m_parlist,
   m_datafile_resolved |-> o.m_datafile_resolved,
   m_datafile_orig |-> o.m_datafile_orig, m_datafileext |-> o.m_datafileext,
   m_ignoredfilecfg |-> o.m_ignoredfilecfg]

\* getValTypeForSet: LogicError under a spy, else the table with the slot
\* filled (a fresh value object when it was empty).
getValTypeForSet(impl, par, g) ==
  IF ~ensureNoSpy(impl) THEN [err |-> "LogicError", impl |-> impl]
  ELSE IF impl.m_parlist[par] # NULL THEN [err |-> "ok", impl |-> impl]
  ELSE [err |-> "ok", impl |-> [impl EXCEPT !.m_parlist[par] = FreshVal(par, g)]]

\* Store the outcome r = [ok, val] of a set call on slot par.
StoreSet(impl, par, r) ==
  [err |-> IF r.ok THEN "ok" ELSE "BadInput",
   impl |-> [impl EXCEPT !.m_parlist[par] = r.val]]

\* setVal<ValType>(par,val)
setVal(impl, par, v, g) ==
  LET f == getValTypeForSet(impl, par, g)
  IN IF f.err # "ok" THEN f
     ELSE StoreSet(f.impl, par, ValScalar_set(f.impl.m_parlist[par], v))

\* strNameToParIdx: the index of the name, or -1 when it throws BadInput.
strNameToParIdx(name) ==
  IF \E i \in PARAMETERS : parnames[i] = name
  THEN CHOOSE i \in PARAMETERS : parnames[i] = name
  ELSE -1

\* setVal<ValType>(par2,v) once setVal<ValType>(par1,v) has returned a.
setValThen(a, par2, v, g) == IF a.err # "ok" THEN a ELSE setVal(a.impl, par2, v, g)

\* getValTypeForSet<ValType>(paridx)->set_from_strrep(value), f being what
\* getValTypeForSet returned.
setValByStr_slot(f, paridx, value) ==
  IF f.err # "ok" THEN f
  ELSE StoreSet(f.impl, paridx, set_from_strrep(f.impl.m_parlist[paridx], value))

\* The part of setValByStr after the pseudo-parameters.
setValByStr_named(impl, paridx, value, g) ==
  IF paridx = -1 THEN [err |-> "BadInput", impl |-> impl]
  ELSE IF value = <<>> /\ partypes[paridx] # "VALTYPE_STR"
  THEN [err |-> "BadInput", impl |-> impl]
  ELSE setValByStr_slot(getValTypeForSet(impl, paridx, g), paridx, value)

\* An "elas" that sets coh_elas only.
setValByStr_elas_cohonly(impl, tmp, g) ==
  IF ~tmp.ok THEN [err |-> "BadInput", impl |-> impl]
  ELSE setVal(impl, PAR_coh_elas, tmp.val.value, g)

\* The "elas" pseudo-parameter, tmp being the parsed boolean.
setValByStr_elas(impl, tmp, g) ==
  IF ~tmp.ok THEN [err |-> "BadInput", impl |-> impl]
  ELSE setValThen(setVal(impl, PAR_coh_elas, tmp.val.value, g),
                  PAR_incoh_elas, tmp.val.value, g)

setValByStr(impl, name0, value, g) ==
  IF name0 = <<"e","l","a","s">>
  THEN setValByStr_elas(impl,
         ValBool_set_from_strrep([t |-> "bool", value |-> g.bool], value), g)
  ELSE IF name0 = <<"b","k","g","d">>
  THEN (IF value = <<"n","o","n","e">> \/ value = <<"0">>
        THEN setValThen(setVal(impl, PAR_incoh_elas, FALSE, g),
                        PAR_inelas, <<"n","o","n","e">>, g)
        ELSE [err |-> "BadInput", impl |-> impl])
  ELSE setValByStr_named(impl,
         strNameToParIdx(IF name0 = <<"b","r","a","g","g">>
                         THEN <<"c","o","h","_","e","l","a","s">> ELSE name0),
         value, g)

\* decodeopts(optstr,opts2val) with skipname = true: ok is false when it
\* throws BadInput, opts are the <<name, value>> pairs in the order given.
RECURSIVE decodeopts_loop(_, _)
decodeopts_loop(parts, opts) ==
  IF parts = <<>> THEN [ok |-> TRUE, opts |-> opts]
  ELSE
    LET it == trim(Head(parts))
        alphalowercase == {"a","b","c","d","e","f","g","h","i","j","k","l","m",
                           "n","o","p","q","r","s","t","u","v","w","x","y","z"}
        alphalowercasenumunderscore ==
          alphalowercase \cup Range(Digits) \cup {"_"}
        sub0 == split(it, 0, "@")
        sub == [i \in 1..Len(sub0) |-> trim(sub0[i])]
        isopt == contains(it, "@")
        badopt == \/ Len(sub) # 2
                  \/ sub[1] = <<>>
                  \/ sub[2] = <<>>
                  \/ contains_any(sub[2], <<"<", ">", ":", "=">>)
        badname == \/ ~(Range(sub[1]) \subseteq alphalowercasenumunderscore)
                   \/ sub[1][1] \notin alphalowercase
        entry == IF isopt THEN <<sub[1], sub[2]>> ELSE <<it, <<"<","f","l","a","g",">">>>>
        fail == [ok |-> FALSE, opts |-> opts]
    IN IF it = <<>> THEN decodeopts_loop(Tail(parts), opts)
       ELSE IF isopt /\ badopt THEN fail
       ELSE IF isopt /\ badname THEN fail
       ELSE IF \E i \in 1..Len(opts) : opts[i][1] = entry[1] THEN fail
       ELSE decodeopts_loop(Tail(parts), Append(opts, entry))

decodeopts(optstr) == decodeopts_loop(Tail(split(optstr, 0, ":")), <<>>)

decodeopt_name(optstr) ==
  IF ~contains(optstr, ":") THEN optstr ELSE trim(split(optstr, 1, ":")[1])

\* The code-level default of a parameter's getter (NULL: there is none).
CodeDefault(par) ==
  IF par = PAR_temp THEN Norm(-1, 0)
  ELSE IF par = PAR_dcutoff THEN Norm(0, 0)
  ELSE IF par = PAR_dcutoffup THEN Inf
  ELSE IF par = PAR_packfact THEN Norm(1, 0)
  ELSE IF par = PAR_mosprec THEN Norm(1, -3)
  ELSE IF par = PAR_sccutoff THEN Norm(4, -1)
  ELSE IF par = PAR_dirtol THEN Norm(1, -4)
  ELSE IF par \in {PAR_coh_elas, PAR_incoh_elas} THEN TRUE
  ELSE IF par = PAR_inelas THEN <<"a","u","t","o">>
  ELSE IF par \in {PAR_overridefileext, PAR_infofactory, PAR_scatfactory,
                   PAR_absnfactory, PAR_atomdb} THEN <<>>
  ELSE IF par = PAR_lcmode THEN 0
  ELSE IF par = PAR_vdoslux THEN 3
  ELSE NULL

\* A catalogue in which every getter falls back on a default.
NoFallbackPars_none == {}

\* The parameters whose getter goes through getValNoFallback or
\* getValTypeThrowIfNotAvail: get_mos, get_dir1, get_dir2, get_lcaxis.
NoFallbackPars == {PAR_mos, PAR_dir1, PAR_dir2, PAR_lcaxis}

\* hasPar(par)
hasPar(impl, par) ==
  [err |-> "ok", res |-> impl.m_parlist[par] # NULL, notes |-> triggerSpy(impl, par)]

\* The typed getter of parameter par (get_temp, ..., get_vdoslux, get_atomdb,
\* get_lcaxis, get_dir1, get_dir2): getVal with the code default, or
\* getValNoFallback / getValTypeThrowIfNotAvail when there is none.
Getter(impl, par) ==
  LET vt == impl.m_parlist[par]
      notes == triggerSpy(impl, par)
      val == IF vt.t = "atomdb" THEN vt.value_as_string
             ELSE IF vt.t = "vector" THEN vt.val
             ELSE IF vt.t = "orientdir" THEN <<vt.crystal_is_hkl, vt.crystal, vt.lab>>
             ELSE vt.value
  IN IF vt = NULL
     THEN (IF par \in NoFallbackPars
           THEN [err |-> "MissingInfo", res |-> NULL, notes |-> notes]
           ELSE [err |-> "ok", res |-> CodeDefault(par), notes |-> notes])
     ELSE IF par = PAR_inelas
               /\ val \in {<<"n","o","n","e">>, <<"0">>, <<"s","t","e","r","i","l","e">>,
                           <<"f","a","l","s","e">>}
     THEN [err |-> "ok", res |-> <<"n","o","n","e">>, notes |-> notes]
     ELSE [err |-> "ok", res |-> val, notes |-> notes]

getDataFileExtension(impl) ==
  LET s == Getter(impl, PAR_overridefileext)
  IN [s EXCEPT !.res = IF s.res = <<>> THEN impl.m_datafileext ELSE s.res]

get_infofact_name(impl) ==
  LET s == Getter(impl, PAR_infofactory)
  IN [s EXCEPT !.res = decodeopt_name(s.res)]

\* The order in which a std::set<std::string> is iterated: increasing.
RECURSIVE SortedNames(_)
SortedNames(names) ==
  IF names = {} THEN <<>>
  ELSE LET first == CHOOSE x \in names : \A y \in names \ {x} : StrLess(x, y)
       IN <<first>> \o SortedNames(names \ {first})

\* One pass of the loop of getCacheSignature over the names left, s being
\* the stream so far and notes the spy calls so far.
RECURSIVE getCacheSignature_loop(_, _, _, _, _)
getCacheSignature_loop(impl, names, isfirst, s, notes) ==
  IF names = <<>> THEN [err |-> "ok", res |-> s, notes |-> notes]
  ELSE IF strNameToParIdx(Head(names)) = -1
  THEN [err |-> "BadInput", res |-> NULL, notes |-> notes]
  ELSE getCacheSignature_loop(impl, Tail(names), FALSE,
         s \o (IF isfirst THEN <<>> ELSE <<";">>) \o Head(names) \o <<"=">>
           \o (IF impl.m_parlist[strNameToParIdx(Head(names))] # NULL
               THEN to_strrep(impl.m_parlist[strNameToParIdx(Head(names))], TRUE)
               ELSE <<"<", ">">>),
         notes \o triggerSpy(impl, strNameToParIdx(Head(names))))

\* getCacheSignature(out, pns): res is what out is assigned.
getCacheSignature(impl, pns) ==
  getCacheSignature_loop(impl, SortedNames(pns), TRUE, <<>>, <<>>)

\* a || b || ... over hasPar calls: the calls stop at the first true one.
RECURSIVE hasAnyPar(_, _)
hasAnyPar(impl, pars) ==
  IF pars = <<>> THEN [err |-> "ok", res |-> FALSE, notes |-> <<>>]
  ELSE LET h == hasPar(impl, Head(pars))
       IN IF h.res THEN h
          ELSE LET r == hasAnyPar(impl, Tail(pars))
               IN [r EXCEPT !.notes = h.notes \o r.notes]

isSingleCrystal(impl) == hasAnyPar(impl, <<PAR_mos, PAR_dir1, PAR_dir2, PAR_dirtol>>)

isLayeredCrystal(impl) == hasPar(impl, PAR_lcaxis)

getDataFileAsSpecified(impl) ==
  IF impl.m_datafile_orig = <<>> THEN impl.m_datafile_resolved ELSE impl.m_datafile_orig

\* SpyDisabler: the constructor swaps the spy list with an empty stash, the
\* destructor swaps it back (both only when the list was not empty).
SpyDisabler_ctor(impl) ==
  IF impl.m_spies = <<>> THEN [armed |-> FALSE, stash |-> <<>>, impl |-> impl]
  ELSE [armed |-> TRUE, stash |-> impl.m_spies, impl |-> [impl EXCEPT !.m_spies = <<>>]]

\* A destructor that forgets to swap the stashed spies back.
SpyDisabler_dtor_forget(sd, impl) == impl

SpyDisabler_dtor(sd, impl) ==
  IF sd.armed THEN [impl EXCEPT !.m_spies = sd.stash] ELSE impl

\* A toStrCfg loop that forgets the only_parnames filter.
toStrCfg_skips_unfiltered(impl, i, only_parnames) == impl.m_parlist[i] = NULL

\* The loop of toStrCfg passes over parameter i: it is not set, or
\* only_parnames is given and does not hold its name.
toStrCfg_skips(impl, i, only_parnames) ==
  \/ impl.m_parlist[i] = NULL
  \/ only_parnames # NULL /\ parnames[i] \notin only_parnames.names

\* The name=value entries of toStrCfg from parameter i on.
RECURSIVE toStrCfg_loop(_, _, _, _)
toStrCfg_loop(impl, i, only_parnames, empty) ==
  IF i >= PAR_NMAX THEN <<>>
  ELSE IF toStrCfg_skips(impl, i, only_parnames)
  THEN toStrCfg_loop(impl, i + 1, only_parnames, empty)
  ELSE (IF empty THEN <<>> ELSE <<";">>)
       \o parnames[i] \o <<"=">> \o to_strrep(impl.m_parlist[i], FALSE)
       \o toStrCfg_loop(impl, i + 1, only_parnames, FALSE)

\* What toStrCfg writes first: the data file as specified and the keyword.
toStrCfg_head(impl, include_datafile) ==
  IF ~include_datafile THEN <<>>
  ELSE getDataFileAsSpecified(impl)
       \o (IF impl.m_ignoredfilecfg
           THEN <<";","i","g","n","o","r","e","f","i","l","e","c","f","g">>
           ELSE <<>>)

\* The body of toStrCfg, nospy being the SpyDisabler constructed on entry.
toStrCfg_body(nospy, include_datafile, only_parnames) ==
  [err |-> "ok",
   res |-> toStrCfg_head(nospy.impl, include_datafile)
           \o toStrCfg_loop(nospy.impl, PAR_FIRST, only_parnames,
                            toStrCfg_head(nospy.impl, include_datafile) = <<>>),
   notes |-> <<>>,
   impl |-> SpyDisabler_dtor(nospy, nospy.impl)]

\* toStrCfg(include_datafile, only_parnames): res is the string, impl the
\* table as the call leaves it, notes the spy notifications made.
\* only_parnames is NULL (a null pointer) or [names |-> a set of names].
toStrCfg(impl0, include_datafile, only_parnames) ==
  toStrCfg_body(SpyDisabler_ctor(impl0), include_datafile, only_parnames)

\* Vector::mag2, Vector::dot and Vector::isParallel on three doubles.
mag2(v) == NumAdd(NumAdd(NumMul(v[1], v[1]), NumMul(v[2], v[2])), NumMul(v[3], v[3]))

dot(a, b) == NumAdd(NumAdd(NumMul(a[1], b[1]), NumMul(a[2], b[2])), NumMul(a[3], b[3]))

isParallel(a, b, epsilon) ==
  LET dp == dot(a, b)
  IN NumLess(Norm(0, 0), dp)
     /\ NumLeq(NumMul(NumMul(mag2(a), mag2(b)), NumAdd(Norm(1, 0), NumMul(Norm(-1, 0), epsilon))),
               NumMul(dp, dp))

\* An nOrient that counts none of mos, dir1 and dir2.
checkConsistency_nOrient_none(d) == 0

\* int nOrient = (hasPar(dir1)?1:0) + (hasPar(dir2)?1:0) + (hasPar(mos)?1:0)
checkConsistency_nOrient(d) ==
  (IF hasPar(d, PAR_dir1).res THEN 1 ELSE 0)
  + (IF hasPar(d, PAR_dir2).res THEN 1 ELSE 0)
  + (IF hasPar(d, PAR_mos).res THEN 1 ELSE 0)

\* The values checkConsistency reads from the table d (its spies disabled):
\* the getters' results (NULL where a parameter without default is unset).
checkConsistency_values(d) ==
  [temp |-> Getter(d, PAR_temp).res,
   dcutoff |-> Getter(d, PAR_dcutoff).res,
   dcutoffup |-> Getter(d, PAR_dcutoffup).res,
   packfact |-> Getter(d, PAR_packfact).res,
   dirtol |-> Getter(d, PAR_dirtol).res,
   sccutoff |-> Getter(d, PAR_sccutoff).res,
   mosprec |-> Getter(d, PAR_mosprec).res,
   inelas |-> Getter(d, PAR_inelas).res,
   infofactory |-> Getter(d, PAR_infofactory).res,
   infofact_name |-> get_infofact_name(d).res,
   nOrient |-> checkConsistency_nOrient(d),
   has_dirtol |-> hasPar(d, PAR_dirtol).res,
   mos |-> Getter(d, PAR_mos).res,
   dir1 |-> d.m_parlist[PAR_dir1],
   dir2 |-> d.m_parlist[PAR_dir2],
   has_lcaxis |-> hasPar(d, PAR_lcaxis).res,
   lcaxis |-> Getter(d, PAR_lcaxis).res,
   vdoslux |-> Getter(d, PAR_vdoslux).res]

\* The characters of a factory or inelas name.
NameChars ==
  {"a","b","c","d","e","f","g","h","i","j","k","l","m","n","o","p","q","r","s","t",
   "u","v","w","x","y","z","_"} \cup Range(Digits)

\* Stage i of checkConsistency, in the order of the code: the parameters the
\* stage reads and whether it throws BadInput, v being the values read.  A
\* stage is evaluated only when every earlier one has passed.
checkConsistency_stage(v, i) ==
  CASE i = 1 ->
         [reads |-> <<PAR_temp, PAR_dcutoff, PAR_dcutoffup, PAR_packfact, PAR_dirtol,
                      PAR_sccutoff>>,
          fail |->
            \/ v.temp # Norm(-1, 0)
               /\ (NumLess(v.temp, Norm(0, 0)) \/ NumLess(Norm(1, 5), v.temp))
            \/ v.dcutoff # Norm(-1, 0)
               /\ (\/ NumLess(v.dcutoff, Norm(0, 0))
                   \/ ~NumLess(v.dcutoff, v.dcutoffup)
                   \/ ~(NumLeq(Norm(1, -3), v.dcutoff) /\ NumLeq(v.dcutoff, Norm(1, 5)))
                      /\ v.dcutoff # Norm(0, 0))
            \/ NumLeq(v.packfact, Norm(0, 0)) \/ NumLess(Norm(1, 0), v.packfact)
            \/ NumLess(v.sccutoff, Norm(0, 0))
            \/ NumLeq(v.dirtol, Norm(0, 0)) \/ NumLess(kPi, v.dirtol)]
    [] i = 2 ->
         [reads |-> <<PAR_mosprec>>,
          fail |-> ~(NumLeq(Norm(9999, -11), v.mosprec)
                     /\ NumLeq(v.mosprec, Norm(10000001, -8)))]
    [] i = 3 ->
         [reads |-> <<PAR_inelas>>,
          fail |-> v.inelas = <<>> \/ ~(Range(v.inelas) \subseteq NameChars)]
    [] i = 4 ->
         [reads |-> <<PAR_infofactory, PAR_infofactory>>,
          fail |-> \/ ~(Range(v.infofact_name) \subseteq NameChars)
                   \/ v.infofact_name = <<>> /\ contains(v.infofactory, ":")
                   \/ ~decodeopts(v.infofactory).ok]
    [] i = 5 ->
         [reads |-> <<PAR_dir1, PAR_dir2, PAR_mos>>,
          fail |-> v.nOrient # 0 /\ v.nOrient < 3]
    [] i = 6 ->
         [reads |-> IF v.nOrient = 0 THEN <<PAR_dirtol>> ELSE <<>>,
          fail |-> v.nOrient = 0 /\ v.has_dirtol]
    [] i = 7 ->
         [reads |-> IF v.nOrient # 0 THEN <<PAR_mos>> ELSE <<>>,
          fail |-> v.nOrient # 0
                   /\ (\/ NumLeq(v.mos, Norm(0, 0))
                       \/ NumLess(Norm(15707925, -7), v.mos)  \* pi/2
                       \/ v.packfact # Norm(1, 0))]
    [] i = 8 ->
         [reads |-> IF v.nOrient # 0 THEN <<PAR_dir1, PAR_dir2>> ELSE <<>>,
          fail |-> v.nOrient # 0
                   /\ (\/ \E dir \in {v.dir1, v.dir2} :
                            mag2(dir.crystal) = Norm(0, 0) \/ mag2(dir.lab) = Norm(0, 0)
                       \/ isParallel(v.dir1.lab, v.dir2.lab, Norm(1, -6))
                       \/ v.dir1.crystal_is_hkl = v.dir2.crystal_is_hkl
                          /\ isParallel(v.dir1.crystal, v.dir2.crystal, Norm(1, -6)))]
    [] i = 9 ->
         [reads |-> IF v.has_lcaxis THEN <<PAR_lcaxis, PAR_lcaxis>> ELSE <<PAR_lcaxis>>,
          fail |-> v.has_lcaxis
                   /\ (\/ \E j \in 1..3 : ncisinf(v.lcaxis[j])
                       \/ mag2(v.lcaxis) = Norm(0, 0))]
    [] OTHER ->
         [reads |-> <<PAR_vdoslux>>, fail |-> v.vdoslux < 0 \/ v.vdoslux > 5]

\* The outcome r of the rest of a call, after the notifications n.
PrependNotes(n, r) == [r EXCEPT !.notes = n \o r.notes]

\* The notifications of reading the parameters ps in turn.
RECURSIVE triggerSpy_each(_, _)
triggerSpy_each(d, ps) ==
  IF ps = <<>> THEN <<>> ELSE triggerSpy(d, Head(ps)) \o triggerSpy_each(d, Tail(ps))

RECURSIVE checkConsistency_run(_, _, _)

\* Stage i done with outcome stage: throw, or go on with the next stage.
checkConsistency_step(d, v, i, stage) ==
  IF stage.fail THEN [err |-> "BadInput", notes |-> triggerSpy_each(d, stage.reads)]
  ELSE PrependNotes(triggerSpy_each(d, stage.reads), checkConsistency_run(d, v, i + 1))

\* Run the stages from stage i on: the error kind and the notifications made.
checkConsistency_run(d, v, i) ==
  IF i > 10 THEN [err |-> "ok", notes |-> <<>>]
  ELSE checkConsistency_step(d, v, i, checkConsistency_stage(v, i))

\* The outcome once the stages have run with result r and the SpyDisabler
\* destructor has run.
checkConsistency_done(nospy, r) ==
  [err |-> r.err, res |-> NULL, notes |-> r.notes,
   impl |-> SpyDisabler_dtor(nospy, nospy.impl)]

checkConsistency_body(nospy) ==
  checkConsistency_done(nospy,
    checkConsistency_run(nospy.impl, checkConsistency_values(nospy.impl), 1))

\* checkConsistency(): err is "ok" or the kind of error thrown, impl the table
\* as the call leaves it (the SpyDisabler destructor runs on every exit).
checkConsistency(impl0) == checkConsistency_body(SpyDisabler_ctor(impl0))

\* What dump writes given s, the outcome of toStrCfg(false).
dump_text(s) ==
  [s EXCEPT !.res =
     <<"M","a","t","C","f","g","(","\"">> \o basename(s.impl.m_datafile_resolved)
     \o (IF s.impl.m_ignoredfilecfg
         THEN <<";","i","g","n","o","r","e","f","i","l","e","c","f","g">> ELSE <<>>)
     \o (IF s.res # <<>> THEN (IF s.res[1] = ";" THEN <<>> ELSE <<";">>) \o s.res
         ELSE <<>>)
     \o <<"\"", ")">>]

\* dump(out): the text written (without the final newline).
dump(impl0) == dump_text(toStrCfg(impl0, FALSE, NULL))

(***************************************************************************)
(* Embedded configuration (MatCfg::Impl::extractFileCfgStr)                *)
(***************************************************************************)

NCRYSTALMATCFG == <<"N","C","R","Y","S","T","A","L","M","A","T","C","F","G">>

\* A payload stored as it is, an empty one too.
extractFileCfgStr_payload_asis(payload) == payload

\* res = line.substr(0,pos); if (res.empty()) res = " ";
extractFileCfgStr_payload(payload) == IF payload = <<>> THEN <<" ">> ELSE payload

\* The getLine loop from the remaining lines on, res being the payload found
\* so far: err is "ok" or "BadInput", res the trimmed payload.
RECURSIVE extractFileCfgStr_loop(_, _)
extractFileCfgStr_loop(lines, res) ==
  IF lines = <<>> THEN [err |-> "ok", res |-> trim(res)]
  ELSE
    LET line0 == Head(lines)
        pos == find(line0, NCRYSTALMATCFG)
        line1 == substr(line0, pos + Len(NCRYSTALMATCFG))
        line2 == substr(line1, 2)
        close == IndexOf(line2, "]")
        payload == SubSeq(line2, 1, close - 1)
        bad == [err |-> "BadInput", res |-> res]
    IN IF pos = 0 THEN extractFileCfgStr_loop(Tail(lines), res)
       ELSE IF res # <<>> THEN bad
       ELSE IF line1 = <<>> \/ line1[1] # "[" THEN bad
       ELSE IF find(line1, NCRYSTALMATCFG) # 0 THEN bad
       ELSE IF close = 0 THEN bad
       ELSE extractFileCfgStr_loop(Tail(lines), extractFileCfgStr_payload(payload))

extractFileCfgStr(lines) == extractFileCfgStr_loop(lines, <<>>)

(***************************************************************************)
(* MatCfg: a handle on a reference-counted table.  The heap maps the ids   *)
(* of the live Impl objects to their contents; a handle holds an id, or 0  *)
(* for a null m_impl.  Each operation returns [err, heap, id]: the error   *)
(* kind ("ok" when it returns normally), the heap and the handle's m_impl  *)
(* as the call leaves them.                                                *)
(***************************************************************************)

NewId(heap) ==
  CHOOSE i \in 1..(Cardinality(DOMAIN heap) + 1) :
     i \notin DOMAIN heap /\ \A j \in 1..(i - 1) : j \in DOMAIN heap

\* new Impl(...); ref()
HeapNew(heap, impl) ==
  [i \in DOMAIN heap \cup {NewId(heap)} |->
     IF i \in DOMAIN heap THEN heap[i] ELSE [impl EXCEPT !.refCount = 1]]

\* RCBase::ref
ref(heap, id) == [heap EXCEPT ![id].refCount = @ + 1]

\* RCBase::unref: the object is deleted when the count reaches 0.
unref(heap, id) ==
  IF heap[id].refCount = 1 THEN [i \in DOMAIN heap \ {id} |-> heap[i]]
  ELSE [heap EXCEPT ![id].refCount = @ - 1]

\* A cow() that never clones: the handle keeps the shared table.
cow_never(heap, id) == [err |-> "ok", heap |-> heap, id |-> id]

cow(heap, id) ==
  IF heap[id].refCount = 1 THEN [err |-> "ok", heap |-> heap, id |-> id]
  ELSE IF ~ensureNoSpy(heap[id]) THEN [err |-> "LogicError", heap |-> heap, id |-> id]
  ELSE [err |-> "ok", heap |-> unref(HeapNew(heap, CloneImpl(heap[id])), id),
        id |-> NewId(heap)]

\* The outcome of an operation that ran on the table of c = [err, heap, id]
\* and left r = [err, impl].
HeapStore(c, r) ==
  [err |-> r.err, heap |-> [c.heap EXCEPT ![c.id] = r.impl], id |-> c.id]

\* cow() followed by an operation f on the exclusive table, f(impl) = [err, impl].
CowThen(heap, id, f(_)) ==
  LET Cowed(c) == IF c.err # "ok" THEN c ELSE HeapStore(c, f(c.heap[c.id]))
  IN Cowed(cow(heap, id))

\* set_temp, set_dcutoff, ..., set_vdoslux: cow(); m_impl->setVal<ValType>(par,v)
MatCfg_set(heap, id, par, v, g) ==
  LET f(impl) == setVal(impl, par, v, g)
  IN CowThen(heap, id, f)

MatCfg_set_lcaxis(heap, id, axis, g) ==
  LET f(impl) ==
        LET vv == getValTypeForSet(impl, PAR_lcaxis, g)
        IN IF vv.err # "ok" THEN vv
           ELSE StoreSet(vv.impl, PAR_lcaxis,
                         ValVector_set(vv.impl.m_parlist[PAR_lcaxis],
                                       axis[1], axis[2], axis[3]))
  IN CowThen(heap, id, f)

\* set_dir1 (par = PAR_dir1) and set_dir2 (par = PAR_dir2)
MatCfg_set_dir(heap, id, par, cishkl, cdir, ldir, g) ==
  LET f(impl) ==
        LET dir == getValTypeForSet(impl, par, g)
        IN IF dir.err # "ok" THEN dir
           ELSE StoreSet(dir.impl, par,
                         ValOrientDir_set(dir.impl.m_parlist[par], cishkl, cdir, ldir))
  IN CowThen(heap, id, f)

\* Impl::setOrientation
Impl_setOrientation(impl, sco, g) ==
  LET p0 == getValTypeForSet(impl, PAR_dir1, g)
      p1 == getValTypeForSet(p0.impl, PAR_dir2, g)
      s0 == StoreSet(p1.impl, PAR_dir1,
                     ValOrientDir_set(p1.impl.m_parlist[PAR_dir1],
                                      sco.crysIsHKL[1], sco.crysDir[1], sco.labDir[1]))
      s1 == StoreSet(s0.impl, PAR_dir2,
                     ValOrientDir_set(s0.impl.m_parlist[PAR_dir2],
                                      sco.crysIsHKL[2], sco.crysDir[2], sco.labDir[2]))
  IN IF p0.err # "ok" THEN p0
     ELSE IF p1.err # "ok" THEN p1
     ELSE IF s0.err # "ok" THEN s0
     ELSE IF s1.err # "ok" THEN s1
     ELSE setVal(s1.impl, PAR_dirtol, sco.tolerance, g)

MatCfg_setOrientation(heap, id, sco, g) ==
  LET f(impl) == Impl_setOrientation(impl, sco, g)
  IN IF ~sco.isComplete THEN [err |-> "BadInput", heap |-> heap, id |-> id]
     ELSE CowThen(heap, id, f)

MatCfg_set_atomdb(heap, id, v, g) ==
  LET f(impl) ==
        LET a == getValTypeForSet(impl, PAR_atomdb, g)
        IN IF a.err # "ok" THEN a
           ELSE StoreSet(a.impl, PAR_atomdb,
                         ValAtomDB_set_from_strrep(a.impl.m_parlist[PAR_atomdb], v))
  IN CowThen(heap, id, f)

\* The loop of applyStrCfg over the ';'-separated parts still to apply.
\* cow(); m_impl->setValByStr(name,value), c being what cow() returned.
applyStrCfg_entry(c, name, value, g) ==
  IF c.err # "ok" THEN c
  ELSE HeapStore(c, setValByStr(c.heap[c.id], name, value, g))

RECURSIVE applyStrCfg_loop(_, _, _, _)

\* The rest of the loop once an entry has been applied with outcome r.
applyStrCfg_next(r, parts, g) ==
  IF r.err # "ok" THEN r ELSE applyStrCfg_loop(r.heap, r.id, Tail(parts), g)

\* One non-empty part, split at '=' into par_and_val.
applyStrCfg_parval(heap, id, parts, par_and_val, g) ==
  IF Len(par_and_val) # 2 THEN [err |-> "BadInput", heap |-> heap, id |-> id]
  ELSE IF trim(par_and_val[1]) = <<>> THEN [err |-> "BadInput", heap |-> heap, id |-> id]
  ELSE applyStrCfg_next(applyStrCfg_entry(cow(heap, id), trim(par_and_val[1]),
                                          trim(par_and_val[2]), g),
                        parts, g)

\* A loop that ends at the first empty part.
applyStrCfg_part_stopatempty(heap, id, parts, part, g) ==
  IF part = <<>> THEN [err |-> "ok", heap |-> heap, id |-> id]
  ELSE IF part = <<"i","g","n","o","r","e","f","i","l","e","c","f","g">>
  THEN [err |-> "BadInput", heap |-> heap, id |-> id]
  ELSE applyStrCfg_parval(heap, id, parts, split(part, 0, "="), g)

\* One trimmed part of the string.
applyStrCfg_part(heap, id, parts, part, g) ==
  IF part = <<>> THEN applyStrCfg_loop(heap, id, Tail(parts), g)
  ELSE IF part = <<"i","g","n","o","r","e","f","i","l","e","c","f","g">>
  THEN [err |-> "BadInput", heap |-> heap, id |-> id]
  ELSE applyStrCfg_parval(heap, id, parts, split(part, 0, "="), g)

\* The loop of applyStrCfg over the ';'-separated parts still to apply.
applyStrCfg_loop(heap, id, parts, g) ==
  IF parts = <<>> THEN [err |-> "ok", heap |-> heap, id |-> id]
  ELSE applyStrCfg_part(heap, id, parts, trim(Head(parts)), g)

applyStrCfg(heap, id, str, g) ==
  IF ~isSimpleASCII(str, TRUE, TRUE) THEN [err |-> "BadInput", heap |-> heap, id |-> id]
  ELSE IF contains_any(str, NCMATCFG_FORBIDDEN_CHARS)
  THEN [err |-> "BadInput", heap |-> heap, id |-> id]
  ELSE applyStrCfg_loop(heap, id, split(str, 0, ";"), g)

\* An addAccessSpy that takes whatever it is given.
addAccessSpy_unchecked(heap, id, spy) ==
  [err |-> "ok", heap |-> [heap EXCEPT ![id].m_spies = Append(@, spy)], id |-> id]

\* addAccessSpy / removeAccessSpy (const methods: no cow)
addAccessSpy(heap, id, spy) ==
  IF spy = "null" \/ spy \in Range(heap[id].m_spies)
  THEN [err |-> "BadInput", heap |-> heap, id |-> id]
  ELSE [err |-> "ok", heap |-> [heap EXCEPT ![id].m_spies = Append(@, spy)], id |-> id]

removeAccessSpy(heap, id, spy) ==
  LET RECURSIVE remove(_)
      remove(s) == IF s = <<>> THEN <<>>
                   ELSE IF Head(s) = spy THEN remove(Tail(s))
                   ELSE <<Head(s)>> \o remove(Tail(s))
      left == remove(heap[id].m_spies)
  IN [err |-> IF Len(left) = Len(heap[id].m_spies) THEN "BadInput" ELSE "ok",
      heap |-> [heap EXCEPT ![id].m_spies = left], id |-> id]

\* operator=(const MatCfg& o), also the body of MatCfg(const MatCfg& o): id is
\* this handle's m_impl (0 when null), oid that of o.
MatCfg_assign(heap, id, oid) ==
  LET h1 == ref(heap, oid)
  IN [err |-> "ok", heap |-> IF id # 0 THEN unref(h1, id) ELSE h1, id |-> oid]

\* A destructor that gives up the handle without unref().
MatCfg_destroy_keep(heap, id) == [err |-> "ok", heap |-> heap, id |-> 0]

\* ~MatCfg()
MatCfg_destroy(heap, id) ==
  [err |-> "ok", heap |-> IF id # 0 THEN unref(heap, id) ELSE heap, id |-> 0]

(***************************************************************************)
(* The text sources createTextInputStream can open, and the constructor    *)
(* MatCfg(const std::string&)                                              *)
(***************************************************************************)

\* name: the source name; resolved: onDiskResolvedPath() (empty for an
\* in-memory source); lines: what getLine returns, in order.
Files ==
  << [name |-> <<"a",".","n","c","m","a","t">>, resolved |-> <<"a",".","n","c","m","a","t">>,
      lines |-> << <<"N","C","M","A","T"," ","v","1">> >>],
     [name |-> <<"b",".","n","c","m","a","t">>, resolved |-> <<>>,
      lines |-> << <<"N","C","M","A","T"," ","v","1">>,
                   <<"#","N","C","R","Y","S","T","A","L","M","A","T","C","F","G","[","t","e","m","p","=","5","0","0","K",";","b","r","a","g","g","=","0",";","i","n","e","l","a","s","=","a","u","t","o","]">> >>],
     [name |-> <<"c",".","n","c","m","a","t">>, resolved |-> <<"/","d","/","c",".","n","c","m","a","t">>,
      lines |-> << <<"#","N","C","R","Y","S","T","A","L","M","A","T","C","F","G","[","t","e","m","p","=","5","0","0","K","]">>,
                   <<"#","N","C","R","Y","S","T","A","L","M","A","T","C","F","G","[","d","c","u","t","o","f","f","=","1","]">> >>],
     [name |-> <<"d">>, resolved |-> <<"d">>,
      lines |-> << <<"N","C","M","A","T"," ","v","1">> >>] >>

\* createTextInputStream(sourcename): found is false for a null stream.
createTextInputStream(sourcename) ==
  IF \E i \in 1..Len(Files) : Files[i].name = sourcename
  THEN LET f == Files[CHOOSE i \in 1..Len(Files) : Files[i].name = sourcename]
       IN [found |-> TRUE, resolved |-> f.resolved, lines |-> f.lines]
  ELSE [found |-> FALSE, resolved |-> <<>>, lines |-> <<>>]

\* trim(parts.at(i)) for every i
TrimAll(parts) == [i \in 1..Len(parts) |-> trim(parts[i])]

\* The constructor throws: the guard deletes the table, no object exists.
CtorFail(heap, kind) == [err |-> kind, heap |-> heap, id |-> 0]

\* The two configurations applied the other way round.
CtorCfgStrs_userfirst(filecfgstr, extracfgstr) ==
  (IF extracfgstr # <<>> THEN <<extracfgstr>> ELSE <<>>)
  \o (IF filecfgstr # <<>> THEN <<filecfgstr>> ELSE <<>>)

\* The configuration strings the constructor applies, in order: the embedded
\* one, then the user's; an empty string is not applied.
CtorCfgStrs(filecfgstr, extracfgstr) ==
  (IF filecfgstr # <<>> THEN <<filecfgstr>> ELSE <<>>)
  \o (IF extracfgstr # <<>> THEN <<extracfgstr>> ELSE <<>>)

RECURSIVE applyStrCfg_each(_, _, _, _)

\* The strings left once one has been applied with outcome r: the first
\* error ends the constructor.
applyStrCfg_each_next(r, strs, g) ==
  IF r.err # "ok" THEN r ELSE applyStrCfg_each(r.heap, r.id, Tail(strs), g)

\* applyStrCfg of each string in turn.
applyStrCfg_each(heap, id, strs, g) ==
  IF strs = <<>> THEN [err |-> "ok", heap |-> heap, id |-> id]
  ELSE applyStrCfg_each_next(applyStrCfg(heap, id, Head(strs), g), strs, g)

\* A constructor that ends by validating the table it has built.
MatCfg_ctor_finish_validating(heap, a) ==
  IF a.err # "ok" THEN CtorFail(heap, a.err)
  ELSE IF getDataFileExtension(a.heap[a.id]).res = <<>> THEN CtorFail(heap, "BadInput")
  ELSE IF checkConsistency(a.heap[a.id]).err # "ok" THEN CtorFail(heap, "BadInput")
  ELSE a

\* The end of the constructor: the extension check on the table built.
MatCfg_ctor_finish(heap, a) ==
  IF a.err # "ok" THEN CtorFail(heap, a.err)
  ELSE IF getDataFileExtension(a.heap[a.id]).res = <<>> THEN CtorFail(heap, "BadInput")
  ELSE a

\* A test for the keyword that never finds it.
MatCfg_ctor_ignorefilecfg_never(parts2) == FALSE

\* if (!parts2.empty() && parts2.at(0)=="ignorefilecfg")
MatCfg_ctor_ignorefilecfg(parts2) ==
  parts2 # <<>> /\ parts2[1] = <<"i","g","n","o","r","e","f","i","l","e","c","f","g">>

\* The fields set from the stream, the "ignorefilecfg" handling and the two
\* configurations: parts2 is the trimmed split of parts[2] (empty when there
\* is no second part).
MatCfg_ctor_fields(heap, parts, inputstream, parts2, g) ==
  LET ignored == MatCfg_ctor_ignorefilecfg(parts2)
      extracfgstr == IF parts2 = <<>> THEN <<>>
                     ELSE IF ~ignored THEN parts[2]
                     ELSE IF Len(parts2) = 2 THEN parts2[2]
                     ELSE <<>>
      impl0 == [NewImpl EXCEPT
                  !.m_datafile_resolved = inputstream.resolved,
                  !.m_datafile_orig = IF parts[1] # inputstream.resolved
                                      THEN parts[1] ELSE <<>>,
                  !.m_datafileext = getfileext(parts[1]),
                  !.m_ignoredfilecfg = ignored]
      filecfg == IF ignored THEN [err |-> "ok", res |-> <<>>]
                 ELSE extractFileCfgStr(inputstream.lines)
  IN IF filecfg.err # "ok" THEN CtorFail(heap, filecfg.err)
     ELSE MatCfg_ctor_finish(heap,
            applyStrCfg_each(HeapNew(heap, impl0), NewId(heap),
                             CtorCfgStrs(filecfg.res, extracfgstr), g))

MatCfg_ctor_parts(heap, parts, g) ==
  IF parts = <<>> \/ parts[1] = <<>> THEN CtorFail(heap, "MissingInfo")
  ELSE IF contains(parts[1], "=") THEN CtorFail(heap, "BadInput")
  ELSE IF ~createTextInputStream(parts[1]).found THEN CtorFail(heap, "FileNotFound")
  ELSE MatCfg_ctor_fields(heap, parts, createTextInputStream(parts[1]),
                          IF Len(parts) = 2 THEN TrimAll(split(parts[2], 1, ";")) ELSE <<>>,
                          g)

\* MatCfg(datafile_and_parameters) on a heap: on an error no object exists
\* (id 0); otherwise id is the new table, with the reference count 1 the
\* constructor leaves (the guard's reference while it runs, the object's after).
MatCfg_ctor(heap, datafile_and_parameters, g) ==
  MatCfg_ctor_parts(heap, TrimAll(split(trim(datafile_and_parameters), 1, ";")), g)

(***************************************************************************)
(* The program as a state machine: client code holding MatCfg objects      *)
(***************************************************************************)

VARIABLES heap,    \* the live Impl objects, by id
          m_impl,  \* per MatCfg variable of the client: its m_impl (0: no object)
          last     \* the most recent call: its operation, handle, argument,
                   \* error kind, result and the spy notifications it made

vars == <<heap, m_impl, last>>

Handles == {"cfg1", "cfg2"}

Spies == {"spyA", "spyB"}

\* The contents an uninitialised double, int and bool may turn out to hold.
Indeterminate ==
  { [dbl |-> Norm(0, 0), int |-> 0, bool |-> FALSE],
    [dbl |-> Norm(-7, 0), int |-> -7, bool |-> TRUE] }

\* pre is the binding of every handle when the call began.
Outcome(op, h, arg, err, res, notes, pre) ==
  [op |-> op, h |-> h, arg |-> arg, err |-> err, res |-> res, notes |-> notes,
   pre |-> pre]

\* A call through handle h that returns r = [err, heap, id].
Call(op, h, arg, r) ==
  /\ heap' = r.heap
  /\ m_impl' = [m_impl EXCEPT ![h] = r.id]
  /\ last' = Outcome(op, h, arg, r.err, NULL, <<>>, m_impl)

\* A const call through handle h that returns r = [err, res, notes] and
\* leaves the handle's table as impl.
Read(op, h, arg, r, impl) ==
  /\ heap' = [heap EXCEPT ![m_impl[h]] = impl]
  /\ m_impl' = m_impl
  /\ last' = Outcome(op, h, arg, r.err, r.res, r.notes, m_impl)

Bound(h) == m_impl[h] # 0

TableOf(h) == heap[m_impl[h]]

\* Arguments the client code passes.
CtorInputs == { <<"a",".","n","c","m","a","t">> }

\* set_temp(293.15) and set_atomdb("H:is:D")
SetInputs == { <<PAR_temp, Norm(29315, -2)>>,
               <<PAR_atomdb, <<"H",":","i","s",":","D">> >> }

\* "atomdb=H:is:D", "atomdb=H:is:D;foo=1", "foo=1", "ignorefilecfg", " ; "
StrInputs ==
  { <<"a","t","o","m","d","b","=","H",":","i","s",":","D">>,
    <<"a","t","o","m","d","b","=","H",":","i","s",":","D",";","f","o","o","=","1">>,
    <<"f","o","o","=","1">>,
    <<"i","g","n","o","r","e","f","i","l","e","c","f","g">>,
    <<" ",";"," ">> }

ScoComplete ==
  [isComplete |-> TRUE, crysIsHKL |-> <<TRUE, FALSE>>,
   crysDir |-> << <<Norm(1, 0), Norm(0, 0), Norm(0, 0)>>,
                  <<Norm(0, 0), Norm(1, 0), Norm(0, 0)>> >>,
   labDir |-> << <<Norm(0, 0), Norm(0, 0), Norm(1, 0)>>,
                 <<Norm(0, 0), Norm(1, 0), Norm(0, 0)>> >>,
   tolerance |-> Norm(1, -4)]

ScoInputs == { ScoComplete, [ScoComplete EXCEPT !.isComplete = FALSE] }

Init ==
  LET c == MatCfg_ctor(<<>>, <<"a",".","n","c","m","a","t">>, CHOOSE g \in Indeterminate : TRUE)
  IN /\ heap = c.heap
     /\ m_impl = [h \in Handles |-> IF h = "cfg1" THEN c.id ELSE 0]
     /\ last = Outcome("MatCfg", "cfg1", <<"a",".","n","c","m","a","t">>, c.err, NULL, <<>>, [h \in Handles |-> 0])

\* MatCfg h(s);
Construct(h, s) ==
  /\ ~Bound(h)
  /\ \E g \in Indeterminate : Call("MatCfg", h, s, MatCfg_ctor(heap, s, g))

\* MatCfg h(o);
CopyConstruct(h, o) ==
  /\ ~Bound(h) /\ Bound(o)
  /\ Call("MatCfg(const MatCfg&)", h, o, MatCfg_assign(heap, 0, m_impl[o]))

\* h = o;
Assign(h, o) ==
  /\ Bound(h) /\ Bound(o)
  /\ Call("operator=", h, o, MatCfg_assign(heap, m_impl[h], m_impl[o]))

\* h goes out of scope.
Destroy(h) ==
  /\ Bound(h)
  /\ Call("~MatCfg", h, NULL, MatCfg_destroy(heap, m_impl[h]))

\* h.set_<par>(v);
Set(h, pv) ==
  /\ Bound(h)
  /\ \E g \in Indeterminate :
       Call("set", h, pv,
            IF pv[1] = PAR_atomdb
            THEN MatCfg_set_atomdb(heap, m_impl[h], pv[2], g)
            ELSE MatCfg_set(heap, m_impl[h], pv[1], pv[2], g))

\* h.applyStrCfg(s);
ApplyStrCfg(h, s) ==
  /\ Bound(h)
  /\ \E g \in Indeterminate :
       Call("applyStrCfg", h, s, applyStrCfg(heap, m_impl[h], s, g))

\* h.setOrientation(sco);
SetOrientation(h, sco) ==
  /\ Bound(h)
  /\ \E g \in Indeterminate :
       Call("setOrientation", h, sco, MatCfg_setOrientation(heap, m_impl[h], sco, g))

\* h.addAccessSpy(spy);
AddAccessSpy(h, spy) ==
  /\ Bound(h)
  /\ Call("addAccessSpy", h, spy, addAccessSpy(heap, m_impl[h], spy))

\* h.removeAccessSpy(spy);
RemoveAccessSpy(h, spy) ==
  /\ Bound(h)
  /\ Call("removeAccessSpy", h, spy, removeAccessSpy(heap, m_impl[h], spy))

Next ==
  \/ \E h \in Handles, s \in CtorInputs : Construct(h, s)
  \/ \E h, o \in Handles : CopyConstruct(h, o)
  \/ \E h, o \in Handles : Assign(h, o)
  \/ \E h \in Handles : Destroy(h)
  \/ \E h \in Handles, pv \in SetInputs : Set(h, pv)
  \/ \E h \in Handles, s \in StrInputs : ApplyStrCfg(h, s)
  \/ \E h \in Handles, sco \in ScoInputs : SetOrientation(h, sco)
  \/ \E h \in Handles : AddAccessSpy(h, "spyA")
  \/ \E h \in Handles : RemoveAccessSpy(h, "spyA")

Spec == Init /\ [][Next]_vars

(***************************************************************************)
(* Copy-on-write and access spies (Spec)                                   *)
(***************************************************************************)

\* The calls that modify a configuration.
ModifyingOps == {"set", "applyStrCfg", "setOrientation"}

\* What a handle observes of a table: everything but the reference count.
View(impl) == [impl EXCEPT !.refCount = 0]

\* C1: a modification through one handle never changes what is observed
\* through another handle that shared the same table before the modification:
\* the other handle keeps its table, and every getter, every presence query
\* and toStrCfg return on it what they returned before.
C1_CowIsolation ==
  [][\A h, o \in Handles :
       (/\ h # o /\ Bound(h) /\ m_impl[o] = m_impl[h]
        /\ last'.op \in ModifyingOps /\ last'.h = h)
       => /\ m_impl'[o] = m_impl[o]
          /\ View(heap'[m_impl[o]]) = View(heap[m_impl[o]])
          /\ \A p \in PARAMETERS :
               /\ Getter(heap'[m_impl[o]], p) = Getter(heap[m_impl[o]], p)
               /\ hasPar(heap'[m_impl[o]], p) = hasPar(heap[m_impl[o]], p)
          /\ \A df \in BOOLEAN :
               toStrCfg(heap'[m_impl[o]], df, NULL).res
               = toStrCfg(heap[m_impl[o]], df, NULL).res]_vars

\* A modification through a handle that shared its table has succeeded, and
\* the two handles now show different configurations.
C1_Witness ==
  /\ last.op \in ModifyingOps /\ last.err = "ok"
  /\ \E o \in Handles \ {last.h} :
       /\ last.pre[o] # 0 /\ last.pre[o] = last.pre[last.h]
       /\ Bound(o) /\ Bound(last.h) /\ m_impl[o] # m_impl[last.h]
       /\ TableOf(o).m_parlist # TableOf(last.h).m_parlist

\* A configuration string without any entry: every ';'-separated part is blank.
NoEntries(s) == \A i \in 1..Len(split(s, 0, ";")) : trim(split(s, 0, ";")[i]) = <<>>

\* The configuration string is rejected as bad input even on a fresh table
\* that nobody monitors.
InvalidStrCfg(s) ==
  \A g \in Indeterminate :
     applyStrCfg(<<[NewImpl EXCEPT !.refCount = 1]>>, 1, s, g).err = "BadInput"

\* A modifying call through h is made on a table that has a spy installed
\* (for applyStrCfg: with a string that holds at least one entry).
ModifiesUnderSpy(h) ==
  /\ Bound(h) /\ TableOf(h).m_spies # <<>>
  /\ last'.op \in ModifyingOps /\ last'.h = h
  /\ last'.op = "applyStrCfg" => ~NoEntries(last'.arg)

\* C2 (amended): while a spy is installed on a handle's table, a set_*,
\* set_atomdb, setOrientation or applyStrCfg (of at least one entry) through
\* the handle fails and leaves every table, spy list and handle binding
\* unchanged.  The error is LogicError, except that input which is invalid in
\* itself is rejected with BadInput where the code looks at it before the spy
\* check: an incomplete SCOrientation, and an entry of applyStrCfg that would
\* be rejected on an unmonitored table as well.
C2_SpiesBlockModification ==
  [][\A h \in Handles :
       ModifiesUnderSpy(h)
       => /\ heap' = heap /\ m_impl' = m_impl
          /\ last'.err \in {"LogicError", "BadInput"}
          /\ last'.op = "set" => last'.err = "LogicError"
          /\ last'.op = "setOrientation"
             => (last'.err = "BadInput" <=> ~last'.arg.isComplete)
          /\ last'.op = "applyStrCfg"
             => (last'.err = "BadInput" => InvalidStrCfg(last'.arg))]_vars

\* A modification attempted on a monitored table has failed with LogicError.
C2_Witness ==
  /\ last.op \in ModifyingOps /\ last.err = "LogicError"
  /\ Bound(last.h) /\ TableOf(last.h).m_spies # <<>>

\* C2 as stated: every such attempt fails with LogicError.
C2_Original ==
  [][\A h \in Handles :
       ModifiesUnderSpy(h)
       => /\ heap' = heap /\ m_impl' = m_impl
          /\ last'.err = "LogicError"]_vars

(***************************************************************************)
(* Reads and access spies (SpecSpy)                                        *)
(***************************************************************************)

\* "a.ncmat", "a.ncmat;mos=1deg", "a.ncmat;dirtol=0.1;infofactory=x:y;lcaxis=0,0,1", "a.ncmat;mos=1deg;dir1=@crys:1,0,0@lab:0,0,1;dir2=@crys:0,1,0@lab:0,1,0;overridefileext=nxs"
SpyCtorInputs ==
  { <<"a",".","n","c","m","a","t">>,
    <<"a",".","n","c","m","a","t",";","m","o","s","=","1","d","e","g">>,
    <<"a",".","n","c","m","a","t",";","d","i","r","t","o","l","=","0",".","1",";","i","n","f","o","f","a","c","t","o","r","y","=","x",":","y",";","l","c","a","x","i","s","=","0",",","0",",","1">>,
    <<"a",".","n","c","m","a","t",";","m","o","s","=","1","d","e","g",";","d","i","r","1","=","@","c","r","y","s",":","1",",","0",",","0","@","l","a","b",":","0",",","0",",","1",";","d","i","r","2","=","@","c","r","y","s",":","0",",","1",",","0","@","l","a","b",":","0",",","1",",","0",";","o","v","e","r","r","i","d","e","f","i","l","e","e","x","t","=","n","x","s">> }

\* The parameters read through their typed getter: every parameter has one.
GetInputs == PARAMETERS

InitSpy ==
  \E s \in SpyCtorInputs :
     LET c == MatCfg_ctor(<<>>, s, CHOOSE g \in Indeterminate : TRUE)
     IN /\ heap = c.heap
        /\ m_impl = [h \in Handles |-> IF h = "cfg1" THEN c.id ELSE 0]
        /\ last = Outcome("MatCfg", "cfg1", s, c.err, NULL, <<>>, [h \in Handles |-> 0])

\* A const call whose outcome r also holds the table as the call leaves it.
ReadThrough(op, h, arg, r) == Read(op, h, arg, r, r.impl)

\* h.get_P() for the parameter P = par
Get(h, par) ==
  /\ Bound(h)
  /\ Read("get", h, par, Getter(TableOf(h), par), TableOf(h))

\* h.isSingleCrystal()
IsSingleCrystal(h) ==
  /\ Bound(h)
  /\ Read("isSingleCrystal", h, NULL, isSingleCrystal(TableOf(h)), TableOf(h))

\* h.isLayeredCrystal()
IsLayeredCrystal(h) ==
  /\ Bound(h)
  /\ Read("isLayeredCrystal", h, NULL, isLayeredCrystal(TableOf(h)), TableOf(h))

\* h.getDataFileExtension()
GetDataFileExtension(h) ==
  /\ Bound(h)
  /\ Read("getDataFileExtension", h, NULL, getDataFileExtension(TableOf(h)), TableOf(h))

\* h.get_infofact_name()
GetInfofactName(h) ==
  /\ Bound(h)
  /\ Read("get_infofact_name", h, NULL, get_infofact_name(TableOf(h)), TableOf(h))

\* h.toStrCfg(include_datafile, only_parnames)
ToStrCfg(h, include_datafile, only_parnames) ==
  /\ Bound(h)
  /\ ReadThrough("toStrCfg", h,
                 [include_datafile |-> include_datafile, only_parnames |-> only_parnames],
                 toStrCfg(TableOf(h), include_datafile, only_parnames))

\* h.getCacheSignature(out, pns)
GetCacheSignature(h, pns) ==
  /\ Bound(h)
  /\ Read("getCacheSignature", h, pns, getCacheSignature(TableOf(h), pns), TableOf(h))

\* h.checkConsistency()
CheckConsistency(h) ==
  /\ Bound(h)
  /\ ReadThrough("checkConsistency", h, NULL, checkConsistency(TableOf(h)))

\* h.dump(out)
Dump(h) ==
  /\ Bound(h)
  /\ ReadThrough("dump", h, NULL, dump(TableOf(h)))

NextSpy ==
  \/ \E h \in Handles, par \in GetInputs : Get(h, par)
  \/ \E h \in Handles : IsSingleCrystal(h)
  \/ \E h \in Handles : IsLayeredCrystal(h)
  \/ \E h \in Handles : GetDataFileExtension(h)
  \/ \E h \in Handles : GetInfofactName(h)
  \/ \E h \in Handles, df \in BOOLEAN : ToStrCfg(h, df, NULL)
  \/ \E h \in Handles : CheckConsistency(h)
  \/ \E h \in Handles : Dump(h)
  \/ \E h \in Handles, spy \in Spies : AddAccessSpy(h, spy)
  \/ \E h \in Handles, spy \in Spies : RemoveAccessSpy(h, spy)

SpecSpy == InitSpy /\ [][NextSpy]_vars

\* The calls during which spies are suppressed.
SerialisingOps == {"toStrCfg", "checkConsistency", "dump"}

\* C3: during toStrCfg, checkConsistency and dump no spy is notified, and when
\* the call ends, normally or by throwing, the table (its spy list included,
\* in the same order) is what it was before the call.
C3_SpiesSuppressed ==
  [][last'.op \in SerialisingOps
     => /\ last'.notes = <<>>
        /\ heap'[m_impl[last'.h]].m_spies = heap[m_impl[last'.h]].m_spies
        /\ heap' = heap /\ m_impl' = m_impl]_vars

\* checkConsistency has thrown on a table that two spies monitor.
C3_Witness ==
  /\ last.op = "checkConsistency" /\ last.err = "BadInput"
  /\ Len(TableOf(last.h).m_spies) = 2

\* parAccessed(name of par) on every spy in installation order, for each of
\* the parameters pars read in turn.
RECURSIVE Notified(_, _)
Notified(spies, pars) ==
  IF pars = <<>> THEN <<>>
  ELSE [i \in 1..Len(spies) |-> <<spies[i], parnames[Head(pars)]>>]
       \o Notified(spies, Tail(pars))

\* The presence queries isSingleCrystal makes on a table: mos, dir1, dir2 and
\* dirtol in turn, up to the first that is set.
RECURSIVE QueriedUntilSet(_, _)
QueriedUntilSet(impl, pars) ==
  IF pars = <<>> THEN <<>>
  ELSE IF impl.m_parlist[Head(pars)] # NULL THEN <<Head(pars)>>
  ELSE <<Head(pars)>> \o QueriedUntilSet(impl, Tail(pars))

\* C4: every typed read of a parameter P notifies every installed spy with the
\* name of P, in installation order, exactly once per read, whether P is set
\* or its default is returned (or, there being neither, MissingInfo thrown).
C4_ReadsNotifySpies ==
  LET spies == TableOf(last.h).m_spies
  IN /\ last.op = "get" => last.notes = Notified(spies, <<last.arg>>)
     /\ last.op = "isLayeredCrystal" => last.notes = Notified(spies, <<PAR_lcaxis>>)
     /\ last.op = "getDataFileExtension"
        => last.notes = Notified(spies, <<PAR_overridefileext>>)
     /\ last.op = "get_infofact_name" => last.notes = Notified(spies, <<PAR_infofactory>>)
     /\ last.op = "isSingleCrystal"
        => last.notes = Notified(spies, QueriedUntilSet(TableOf(last.h),
                                   <<PAR_mos, PAR_dir1, PAR_dir2, PAR_dirtol>>))

\* An unset parameter has been read through its getter on a table with two
\* spies, and both have been told, the first installed first.
C4_Witness ==
  /\ last.op = "get" /\ last.arg = PAR_temp /\ last.err = "ok"
  /\ TableOf(last.h).m_parlist[PAR_temp] = NULL
  /\ TableOf(last.h).m_spies = <<"spyB", "spyA">>
  /\ last.notes = << <<"spyB", parnames[PAR_temp]>>, <<"spyA", parnames[PAR_temp]>> >>

(***************************************************************************)
(* Extraction of the embedded configuration (SpecExtract)                  *)
(***************************************************************************)

\* The longest input, in lines.
MaxFileLines == 3

\* The lines an input is made of:
\*   NCMAT v1
\*   #NCRYSTALMATCFG[temp=500K]
\*   #NCRYSTALMATCFG[]
\*   NCRYSTALMATCFG temp=1
\*   NCRYSTALMATCFG[temp=1
\*   NCRYSTALMATCFG[a=1]NCRYSTALMATCFG[b=2]
\*   ] NCRYSTALMATCFG[ ]x
\*   # NCRYSTALMATCFG
LineShapes ==
  { <<"N","C","M","A","T"," ","v","1">>,
    <<"#","N","C","R","Y","S","T","A","L","M","A","T","C","F","G","[","t","e","m","p","=","5","0","0","K","]">>,
    <<"#","N","C","R","Y","S","T","A","L","M","A","T","C","F","G","[","]">>,
    <<"N","C","R","Y","S","T","A","L","M","A","T","C","F","G"," ","t","e","m","p","=","1">>,
    <<"N","C","R","Y","S","T","A","L","M","A","T","C","F","G","[","t","e","m","p","=","1">>,
    <<"N","C","R","Y","S","T","A","L","M","A","T","C","F","G","[","a","=","1","]","N","C","R","Y","S","T","A","L","M","A","T","C","F","G","[","b","=","2","]">>,
    <<"]"," ","N","C","R","Y","S","T","A","L","M","A","T","C","F","G","["," ","]","x">>,
    <<"#"," ","N","C","R","Y","S","T","A","L","M","A","T","C","F","G">> }

FileInputs == UNION { [1..n -> LineShapes] : n \in 0..MaxFileLines }

\* An input stream has been opened on some lines.
InitExtract ==
  \E lines \in FileInputs :
     /\ heap = <<>>
     /\ m_impl = [h \in Handles |-> 0]
     /\ last = Outcome("TextInputStream", "cfg1", lines, "ok", NULL, <<>>,
                       [h \in Handles |-> 0])

ExtractOutcome(lines, r) ==
  last' = Outcome("extractFileCfgStr", "cfg1", lines, r.err, r.res, <<>>, m_impl)

\* Impl::extractFileCfgStr(input,res)
ExtractFileCfgStr ==
  /\ last.op = "TextInputStream"
  /\ ExtractOutcome(last.arg, extractFileCfgStr(last.arg))
  /\ UNCHANGED <<heap, m_impl>>

NextExtract == ExtractFileCfgStr

SpecExtract == InitExtract /\ [][NextExtract]_vars

\* The positions at which the marker starts in a line.
MarkerAt(line) ==
  { i \in 1..Len(line) :
      /\ i + Len(NCRYSTALMATCFG) - 1 <= Len(line)
      /\ SubSeq(line, i, i + Len(NCRYSTALMATCFG) - 1) = NCRYSTALMATCFG }

\* The marker is in the input more than once: twice on a line, or on two lines.
MarkerRepeated(lines) ==
  \/ \E k \in 1..Len(lines) : Cardinality(MarkerAt(lines[k])) > 1
  \/ \E k, l \in 1..Len(lines) :
       k # l /\ MarkerAt(lines[k]) # {} /\ MarkerAt(lines[l]) # {}

\* Some marker is not immediately followed by '['.
MarkerWithoutOpen(lines) ==
  \E k \in 1..Len(lines) : \E i \in MarkerAt(lines[k]) :
     \/ i + Len(NCRYSTALMATCFG) > Len(lines[k])
     \/ lines[k][i + Len(NCRYSTALMATCFG)] # "["

\* Some marker has no ']' after it on its line.
MarkerWithoutClose(lines) ==
  \E k \in 1..Len(lines) : \E i \in MarkerAt(lines[k]) :
     \A j \in (i + Len(NCRYSTALMATCFG))..Len(lines[k]) : lines[k][j] # "]"

\* C6: extraction fails with BadInput when the marker occurs more than once in
\* the input (on one line or on several, whatever the payloads, the empty one
\* included), when a marker is not immediately followed by '[', and when it
\* has no closing ']' on its line; any other input is accepted.
C6_ExtractRejects ==
  last.op = "extractFileCfgStr"
  => (last.err = "BadInput"
      <=> \/ MarkerRepeated(last.arg)
          \/ MarkerWithoutOpen(last.arg)
          \/ MarkerWithoutClose(last.arg))

\* An input with an empty block on one line and a second block on a later
\* line has been rejected.
C6_Witness ==
  /\ last.op = "extractFileCfgStr" /\ last.err = "BadInput"
  /\ Len(last.arg) = 3
  /\ last.arg[1] = <<"#","N","C","R","Y","S","T","A","L","M","A","T","C","F","G","[","]">>
  /\ last.arg[3] = <<"#","N","C","R","Y","S","T","A","L","M","A","T","C","F","G","[","t","e","m","p","=","5","0","0","K","]">>
  /\ MarkerAt(last.arg[2]) = {}

(***************************************************************************)
(* Construction from a string, and serialisation (SpecCtor)                *)
(***************************************************************************)

\* The strings given to the constructor:
\*   a.ncmat
\*   a.ncmat;temp=20C;atomdb=H:is:D
\*   a.ncmat;atomdb=H::is:D;temp=20C
\*   a.ncmat;temp=293.15K;atomdb=H:is:D
\*   a.ncmat;ignorefilecfg;temp=20C;atomdb=H:is:D
\*   b.ncmat
\*   b.ncmat;temp=20C;elas=1;bkgd=none
\*   b.ncmat; ignorefilecfg ;temp=20C
\*   b.ncmat;temp=20C;ignorefilecfg
\*   b.ncmat;;ignorefilecfg
\*   a.ncmat;atomdb=@
\*   c.ncmat
\*   c.ncmat;ignorefilecfg;vdoslux=2;temp=20C;lcaxis=0,0,1.50;inelas=0;mos=1arcsec;dir1=@crys_hkl:1,0,0@lab:0,0,1
SrcInputs ==
  { <<"a",".","n","c","m","a","t">>,
    <<"a",".","n","c","m","a","t",";","t","e","m","p","=","2","0","C",";","a","t","o","m","d","b","=","H",":","i","s",":","D">>,
    <<"a",".","n","c","m","a","t",";","a","t","o","m","d","b","=","H",":",":","i","s",":","D",";","t","e","m","p","=","2","0","C">>,
    <<"a",".","n","c","m","a","t",";","t","e","m","p","=","2","9","3",".","1","5","K",";","a","t","o","m","d","b","=","H",":","i","s",":","D">>,
    <<"a",".","n","c","m","a","t",";","i","g","n","o","r","e","f","i","l","e","c","f","g",";","t","e","m","p","=","2","0","C",";","a","t","o","m","d","b","=","H",":","i","s",":","D">>,
    <<"b",".","n","c","m","a","t">>,
    <<"b",".","n","c","m","a","t",";","t","e","m","p","=","2","0","C",";","e","l","a","s","=","1",";","b","k","g","d","=","n","o","n","e">>,
    <<"b",".","n","c","m","a","t",";"," ","i","g","n","o","r","e","f","i","l","e","c","f","g"," ",";","t","e","m","p","=","2","0","C">>,
    <<"b",".","n","c","m","a","t",";","t","e","m","p","=","2","0","C",";","i","g","n","o","r","e","f","i","l","e","c","f","g">>,
    <<"b",".","n","c","m","a","t",";",";","i","g","n","o","r","e","f","i","l","e","c","f","g">>,
    <<"a",".","n","c","m","a","t",";","a","t","o","m","d","b","=","@">>,
    <<"c",".","n","c","m","a","t">>,
    <<"c",".","n","c","m","a","t",";","i","g","n","o","r","e","f","i","l","e","c","f","g",";","v","d","o","s","l","u","x","=","2",";","t","e","m","p","=","2","0","C",";","l","c","a","x","i","s","=","0",",","0",",","1",".","5","0",";","i","n","e","l","a","s","=","0",";","m","o","s","=","1","a","r","c","s","e","c",";","d","i","r","1","=","@","c","r","y","s","_","h","k","l",":","1",",","0",",","0","@","l","a","b",":","0",",","0",",","1">> }

\* The strings given to applyStrCfg:
\*   "ignorefilecfg"
\*   " ;ignorefilecfg;temp=20C"
\*   "temp=20C;ignorefilecfg"
KeywordInputs ==
  { <<"i","g","n","o","r","e","f","i","l","e","c","f","g">>,
    <<" ",";","i","g","n","o","r","e","f","i","l","e","c","f","g",";","t","e","m","p","=","2","0","C">>,
    <<"t","e","m","p","=","2","0","C",";","i","g","n","o","r","e","f","i","l","e","c","f","g">> }

IGNOREFILECFG == <<"i","g","n","o","r","e","f","i","l","e","c","f","g">>

\* The arguments of toStrCfg: with and without the source name, with and
\* without a set of names (one of them set nowhere, one no parameter's name).
ToStrInputs ==
  { [include_datafile |-> df, only_parnames |-> only] :
      df \in BOOLEAN,
      only \in {NULL, [names |-> {parnames[PAR_temp], parnames[PAR_vdoslux],
                                  parnames[PAR_packfact], <<"f","o","o">>}]} }

\* MatCfg h(o.toStrCfg());
ConstructFrom(h, o) ==
  /\ ~Bound(h) /\ Bound(o)
  /\ \E g \in Indeterminate :
       Call("MatCfg(toStrCfg)", h, o,
            MatCfg_ctor(heap, toStrCfg(TableOf(o), TRUE, NULL).res, g))

NextCtor ==
  \/ \E h \in Handles, s \in SrcInputs : Construct(h, s)
  \/ \E h, o \in Handles : ConstructFrom(h, o)
  \/ \E h \in Handles : Destroy(h)
  \/ \E h \in Handles, s \in KeywordInputs : ApplyStrCfg(h, s)
  \/ \E h \in Handles, a \in ToStrInputs :
       ToStrCfg(h, a.include_datafile, a.only_parnames)

SpecCtor == Init /\ [][NextCtor]_vars

\* The source name of a constructor string, and what follows its first ';'.
SourceOf(s) == trim(split(trim(s), 1, ";")[1])

UserCfgOf(s) ==
  IF Len(split(trim(s), 1, ";")) = 2 THEN split(trim(s), 1, ";")[2] ELSE <<>>

\* The ';'-separated parts of a string, each trimmed, and the places among
\* them where the keyword stands.
PartsOf(s) == TrimAll(split(trim(s), 0, ";"))

KeywordAt(s) == { k \in 1..Len(PartsOf(s)) : PartsOf(s)[k] = IGNOREFILECFG }

\* What follows the second ';' of a constructor string.
AfterKeyword(s) ==
  IF Len(split(trim(s), 2, ";")) = 3 THEN split(trim(s), 2, ";")[3] ELSE <<>>

\* The payload of the block embedded in the source of a constructor string.
EmbeddedOf(s) == extractFileCfgStr(createTextInputStream(SourceOf(s)).lines)

\* The outcome of applying a configuration string to a table of its own that
\* holds nothing yet: the error kind and the slots.
AppliedAlone(str) ==
  LET r == applyStrCfg(<<[NewImpl EXCEPT !.refCount = 1]>>, 1, str,
                       CHOOSE g \in Indeterminate : TRUE)
  IN [err |-> r.err, m_parlist |-> r.heap[1].m_parlist]

\* C5: a constructor that does not ignore the embedded block applies it first
\* and the user's entries second: every parameter the user's entries set
\* (by name or through bragg, elas, bkgd) holds what they alone would give it,
\* every other parameter what the embedded block alone gives it.
C5_UserOverridesEmbedded ==
  (/\ last.op = "MatCfg" /\ last.err = "ok"
   /\ 2 \notin KeywordAt(last.arg)
   /\ EmbeddedOf(last.arg).res # <<>>)
  => \A p \in PARAMETERS :
       TableOf(last.h).m_parlist[p]
       = IF AppliedAlone(UserCfgOf(last.arg)).m_parlist[p] # NULL
         THEN AppliedAlone(UserCfgOf(last.arg)).m_parlist[p]
         ELSE AppliedAlone(EmbeddedOf(last.arg).res).m_parlist[p]

\* A source with an embedded block has been constructed with user entries
\* that name, directly and through aliases, what the block names too.
C5_Witness ==
  /\ last.op = "MatCfg" /\ last.err = "ok"
  /\ last.arg = <<"b",".","n","c","m","a","t",";","t","e","m","p","=","2","0","C",";","e","l","a","s","=","1",";","b","k","g","d","=","n","o","n","e">>
  /\ TableOf(last.h).m_parlist[PAR_temp].origstrrep = <<"2","0","C">>
  /\ TableOf(last.h).m_parlist[PAR_coh_elas].value = TRUE
  /\ TableOf(last.h).m_parlist[PAR_inelas].value = <<"n","o","n","e">>

\* The source of a constructor string can be opened and has no '=' in its name.
SourceFound(s) ==
  /\ SourceOf(s) # <<>> /\ ~contains(SourceOf(s), "=")
  /\ createTextInputStream(SourceOf(s)).found

\* The error kind of a constructor that ignores the embedded block, u being
\* what its user entries give on their own.
ErrIgnoring(s, u) ==
  IF u.err # "ok" THEN u.err
  ELSE IF u.m_parlist[PAR_overridefileext] = NULL /\ getfileext(SourceOf(s)) = <<>>
  THEN "BadInput"
  ELSE "ok"

\* C7: the keyword ignorefilecfg is accepted only as the first part after the
\* source name of the constructor: the flag is then set, the input is not
\* scanned, and the outcome is what the user's entries give on their own.
\* Anywhere else in the constructor string, and anywhere in applyStrCfg, it is
\* rejected with BadInput; without it the flag is not set.
C7_IgnoreFileCfg ==
  /\ (last.op = "MatCfg" /\ SourceFound(last.arg))
     => /\ KeywordAt(last.arg) = {2}
           => /\ last.err = ErrIgnoring(last.arg, AppliedAlone(AfterKeyword(last.arg)))
              /\ last.err = "ok"
                 => /\ TableOf(last.h).m_ignoredfilecfg
                    /\ TableOf(last.h).m_parlist
                       = AppliedAlone(AfterKeyword(last.arg)).m_parlist
        /\ (KeywordAt(last.arg) \ {2}) # {} => last.err = "BadInput"
        /\ (last.err = "ok" /\ 2 \notin KeywordAt(last.arg))
           => ~TableOf(last.h).m_ignoredfilecfg
  /\ (last.op = "applyStrCfg" /\ KeywordAt(last.arg) # {})
     => last.err = "BadInput"

\* A source whose embedded blocks are duplicated has been constructed with
\* the keyword, and holds the user's entries.
C7_Witness ==
  /\ last.op = "MatCfg" /\ last.err = "ok"
  /\ SourceOf(last.arg) = <<"c",".","n","c","m","a","t">>
  /\ EmbeddedOf(last.arg).err = "BadInput"
  /\ TableOf(last.h).m_ignoredfilecfg
  /\ TableOf(last.h).m_parlist[PAR_vdoslux] # NULL

\* The parameters that are set in a table.
SetPars(impl) == { p \in PARAMETERS : impl.m_parlist[p] # NULL }

\* What the get-accessors return on a table: the typed getters, the source
\* name and extension, the factory name and the crystal kind queries.
Accessors(impl) ==
  [get |-> [p \in PARAMETERS |-> [err |-> Getter(impl, p).err, res |-> Getter(impl, p).res]],
   datafile |-> getDataFileAsSpecified(impl),
   ext |-> getDataFileExtension(impl).res,
   infofact_name |-> get_infofact_name(impl).res,
   single |-> isSingleCrystal(impl).res,
   layered |-> isLayeredCrystal(impl).res]

\* C8 (as stated): constructing a second MatCfg from toStrCfg(true) of a
\* first succeeds and gives a configuration with the same parameters set, the
\* same ignorefilecfg flag and the same result of every get-accessor.
C8_RoundTrip ==
  last.op = "MatCfg(toStrCfg)"
  => /\ last.err = "ok"
     /\ Bound(last.h)
     /\ SetPars(TableOf(last.h)) = SetPars(TableOf(last.arg))
     /\ TableOf(last.h).m_ignoredfilecfg = TableOf(last.arg).m_ignoredfilecfg
     /\ Accessors(TableOf(last.h)) = Accessors(TableOf(last.arg))

\* The parameter of a name.
ParOf(name) == CHOOSE p \in PARAMETERS : parnames[p] = name

\* What toStrCfg is to return on a table: the source name and the keyword
\* when asked for, then name=value for the names of the set parameters
\* (those among only_parnames when given) in alphabetical order, with ';'
\* between any two of these pieces.
CanonicalStr(impl, include_datafile, only_parnames) ==
  LET names == SortedNames({ parnames[p] : p \in
                   { q \in SetPars(impl) :
                       only_parnames = NULL \/ parnames[q] \in only_parnames.names } })
      pieces == (IF include_datafile
                 THEN <<getDataFileAsSpecified(impl)>>
                      \o (IF impl.m_ignoredfilecfg THEN <<IGNOREFILECFG>> ELSE <<>>)
                 ELSE <<>>)
                \o [i \in 1..Len(names) |->
                      names[i] \o <<"=">> \o to_strrep(impl.m_parlist[ParOf(names[i])], FALSE)]
  IN joinstr(pieces, <<";">>)

\* C9: toStrCfg emits exactly the set parameters (those of only_parnames when
\* given), each once as name=value, separated by ';', in strictly increasing
\* alphabetical order of their names; with include_datafile the source name
\* (and ";ignorefilecfg" when flagged) comes first.
C9_CanonicalOrder ==
  last.op = "toStrCfg"
  => last.res = CanonicalStr(TableOf(last.h), last.arg.include_datafile,
                             last.arg.only_parnames)

\* toStrCfg has been asked for some names only, on a flagged table that sets
\* two of them and other parameters too, set in another than alphabetical order.
C9_Witness ==
  /\ last.op = "toStrCfg" /\ last.arg.include_datafile
  /\ last.arg.only_parnames # NULL
  /\ TableOf(last.h).m_ignoredfilecfg
  /\ {PAR_temp, PAR_vdoslux, PAR_lcaxis, PAR_mos} \subseteq SetPars(TableOf(last.h))
  /\ last.res = <<"c",".","n","c","m","a","t",";","i","g","n","o","r","e","f","i","l","e","c","f","g",";","t","e","m","p","=","2","0","C",";","v","d","o","s","l","u","x","=","2">>

\* The typed value a slot holds: the number, integer, flag or string, the
\* parsed atomdb lines, the vector, the direction.
ValueOf(val) ==
  IF val = NULL THEN NULL
  ELSE IF val.t = "vector" THEN val.val
  ELSE IF val.t = "orientdir" THEN <<val.crystal_is_hkl, val.crystal, val.lab>>
  ELSE val.value

\* The text a slot remembers of how its value was written: the original text
\* of a number, a vector or a direction read from a string (none when set
\* from a number), and a string value itself.
TextOf(val) ==
  IF val = NULL THEN <<>>
  ELSE IF val.t \in {"dbl", "vector", "orientdir"} THEN val.origstrrep
  ELSE IF val.t = "str" THEN val.value
  ELSE <<>>

\* Two tables have the same source name and the same parameters set, with
\* equal values.
SameConfiguration(a, b) ==
  /\ getDataFileAsSpecified(a) = getDataFileAsSpecified(b)
  /\ SetPars(a) = SetPars(b)
  /\ \A p \in PARAMETERS : ValueOf(a.m_parlist[p]) = ValueOf(b.m_parlist[p])

\* toStrCfg gives the same text on two tables, with or without source name.
SameStrCfg(a, b) ==
  \A df \in BOOLEAN : toStrCfg(a, df, NULL).res = toStrCfg(b, df, NULL).res

\* C10 (as stated): two configurations with the same source name and the same
\* parameters with equal values give byte-identical toStrCfg output, however
\* each value was supplied and in whatever order (read in the claim's favour:
\* of two configurations that also agree on the ignorefilecfg flag).
C10_Original ==
  \A h, o \in Handles :
     (/\ Bound(h) /\ Bound(o)
      /\ SameConfiguration(TableOf(h), TableOf(o))
      /\ TableOf(h).m_ignoredfilecfg = TableOf(o).m_ignoredfilecfg)
     => SameStrCfg(TableOf(h), TableOf(o))

\* C10 (amended): two configurations with the same source name, the same
\* ignorefilecfg flag and the same parameters with equal values give
\* byte-identical toStrCfg output, in whatever order the parameters were set
\* and however integer, boolean and atomdb values were written, provided the
\* numbers, vectors, directions and strings were written as the same text:
\* toStrCfg returns that text.
C10_CanonicalIdentity ==
  \A h, o \in Handles :
     (/\ Bound(h) /\ Bound(o)
      /\ SameConfiguration(TableOf(h), TableOf(o))
      /\ TableOf(h).m_ignoredfilecfg = TableOf(o).m_ignoredfilecfg
      /\ \A p \in PARAMETERS :
           TextOf(TableOf(h).m_parlist[p]) = TextOf(TableOf(o).m_parlist[p]))
     => SameStrCfg(TableOf(h), TableOf(o))

\* Two objects have been constructed from strings that give the same
\* parameters in a different order and write the atomdb value differently.
C10_Witness ==
  /\ last.op = "MatCfg" /\ last.err = "ok"
  /\ last.arg = <<"a",".","n","c","m","a","t",";","a","t","o","m","d","b","=","H",":",":","i","s",":","D",";","t","e","m","p","=","2","0","C">>
  /\ \E o \in Handles \ {last.h} :
       /\ Bound(o) /\ m_impl[o] # m_impl[last.h]
       /\ SameConfiguration(TableOf(o), TableOf(last.h))
       /\ TextOf(TableOf(o).m_parlist[PAR_temp]) = <<"2","0","C">>
       /\ ~TableOf(o).m_ignoredfilecfg

(***************************************************************************)
(* Doubles given as text: unit suffixes (SpecUnits)                        *)
(***************************************************************************)

\* "temp=20C", "temp=293.15K", "temp=68F", "temp=20 C", "mos=60arcmin",
\* "mos=1deg", "mos=0.5rad", "mos=3600arcsec", "dcutoff=0.5Aa",
\* "dcutoff=0.05nm", and three entries that are rejected: "temp=20deg",
\* "packfact=1K", "mos=arcmin"
UnitStrInputs ==
  { <<"t","e","m","p","=","2","0","C">>, <<"t","e","m","p","=","2","9","3",".","1","5","K">>, <<"t","e","m","p","=","6","8","F">>, <<"t","e","m","p","=","2","0"," ","C">>,
    <<"m","o","s","=","6","0","a","r","c","m","i","n">>, <<"m","o","s","=","1","d","e","g">>, <<"m","o","s","=","0",".","5","r","a","d">>, <<"m","o","s","=","3","6","0","0","a","r","c","s","e","c">>,
    <<"d","c","u","t","o","f","f","=","0",".","5","A","a">>, <<"d","c","u","t","o","f","f","=","0",".","0","5","n","m">>,
    <<"t","e","m","p","=","2","0","d","e","g">>, <<"p","a","c","k","f","a","c","t","=","1","K">>, <<"m","o","s","=","a","r","c","m","i","n">> }

UnitGetInputs == {PAR_temp, PAR_mos, PAR_dcutoff, PAR_packfact}

NextUnits ==
  \/ \E h \in Handles, s \in UnitStrInputs : ApplyStrCfg(h, s)
  \/ \E h \in Handles, par \in UnitGetInputs : Get(h, par)

SpecUnits == Init /\ [][NextUnits]_vars

\* The entries of UnitStrInputs that carry a tabulated suffix: the parameter,
\* the number written, and the factor and offset tabulated for the suffix.
UnitCases ==
  { [text |-> <<"t","e","m","p","=","2","0","C">>, par |-> PAR_temp, number |-> Norm(20, 0),
     fact |-> Norm(1, 0), offset |-> Norm(27315, -2)],
    [text |-> <<"t","e","m","p","=","2","0"," ","C">>, par |-> PAR_temp, number |-> Norm(20, 0),
     fact |-> Norm(1, 0), offset |-> Norm(27315, -2)],
    [text |-> <<"t","e","m","p","=","2","9","3",".","1","5","K">>, par |-> PAR_temp, number |-> Norm(29315, -2),
     fact |-> Norm(1, 0), offset |-> Norm(0, 0)],
    [text |-> <<"m","o","s","=","6","0","a","r","c","m","i","n">>, par |-> PAR_mos, number |-> Norm(60, 0),
     fact |-> kArcMin, offset |-> Norm(0, 0)],
    [text |-> <<"m","o","s","=","1","d","e","g">>, par |-> PAR_mos, number |-> Norm(1, 0),
     fact |-> kDeg, offset |-> Norm(0, 0)],
    [text |-> <<"m","o","s","=","0",".","5","r","a","d">>, par |-> PAR_mos, number |-> Norm(5, -1),
     fact |-> Norm(1, 0), offset |-> Norm(0, 0)],
    [text |-> <<"m","o","s","=","3","6","0","0","a","r","c","s","e","c">>, par |-> PAR_mos, number |-> Norm(3600, 0),
     fact |-> kArcSec, offset |-> Norm(0, 0)],
    [text |-> <<"d","c","u","t","o","f","f","=","0",".","5","A","a">>, par |-> PAR_dcutoff, number |-> Norm(5, -1),
     fact |-> Norm(1, 0), offset |-> Norm(0, 0)],
    [text |-> <<"d","c","u","t","o","f","f","=","0",".","0","5","n","m">>, par |-> PAR_dcutoff, number |-> Norm(5, -2),
     fact |-> Norm(10, 0), offset |-> Norm(0, 0)] }

\* The value the getter of par returns on the table of the last call.
GetAfter(par) == Getter(TableOf(last.h), par).res

\* C11: a Double set from text with a unit suffix holds offset + factor *
\* number for the suffix's tabulated factor and offset (deg = pi/180, arcmin =
\* deg/60, arcsec = arcmin/60): temp=20C gives 293.15, mos=60arcmin gives
\* 60*pi/10800, dcutoff=0.5Aa gives 0.5, K, rad and Aa leave the number as it
\* is; and applying the same entry once more leaves the table as it is.
C11_UnitConversion ==
  /\ NumMul(kDeg, Norm(180, 0)) = kPi
  /\ NumMul(kArcMin, Norm(60, 0)) = kDeg
  /\ NumMul(kArcSec, Norm(60, 0)) = kArcMin
  /\ \A c \in UnitCases :
       last.op = "applyStrCfg" /\ last.arg = c.text
       => /\ last.err = "ok"
          /\ GetAfter(c.par) = NumAdd(c.offset, NumMul(c.fact, c.number))
          /\ c.fact = Norm(1, 0) /\ c.offset = Norm(0, 0) => GetAfter(c.par) = c.number
          /\ \A g \in Indeterminate :
               applyStrCfg(heap, m_impl[last.h], last.arg, g).heap = heap
  /\ last.op = "applyStrCfg" /\ last.arg = <<"t","e","m","p","=","2","0","C">>
     => GetAfter(PAR_temp) = Norm(29315, -2)
  /\ last.op = "applyStrCfg" /\ last.arg = <<"m","o","s","=","6","0","a","r","c","m","i","n">>
     => NumMul(GetAfter(PAR_mos), Norm(10800, 0)) = NumMul(Norm(60, 0), kPi)
  /\ last.op = "applyStrCfg" /\ last.arg = <<"d","c","u","t","o","f","f","=","0",".","5","A","a">>
     => GetAfter(PAR_dcutoff) = Norm(5, -1)

\* mos=60arcmin has been applied to a table whose temp came from 20C.
C11_Witness ==
  /\ last.op = "applyStrCfg" /\ last.arg = <<"m","o","s","=","6","0","a","r","c","m","i","n">> /\ last.err = "ok"
  /\ GetAfter(PAR_mos) = kDeg
  /\ GetAfter(PAR_temp) = Norm(29315, -2)
  /\ TableOf(last.h).m_parlist[PAR_temp].origstrrep = <<"2","0","C">>

(***************************************************************************)
(* Constructed configurations and checkConsistency (SpecConsist)           *)
(***************************************************************************)

\* "a.ncmat" followed by: nothing; temp=0, -1, -5, -0.5, 1e5, 100001, 293.15,
\* inf, abc; packfact=2, 0.5, 0; mos, dir1, dir2 alone, in pairs and all
\* three, the three with packfact=0.5, packfact=1, dirtol=0.1 and temp=0;
\* dirtol=0.1 alone.
ConsistCtorInputs ==
  { <<"a",".","n","c","m","a","t">>,
    <<"a",".","n","c","m","a","t",";","t","e","m","p","=","0">>, <<"a",".","n","c","m","a","t",";","t","e","m","p","=","-","1">>, <<"a",".","n","c","m","a","t",";","t","e","m","p","=","-","5">>, <<"a",".","n","c","m","a","t",";","t","e","m","p","=","-","0",".","5">>,
    <<"a",".","n","c","m","a","t",";","t","e","m","p","=","1","e","5">>, <<"a",".","n","c","m","a","t",";","t","e","m","p","=","1","0","0","0","0","1">>, <<"a",".","n","c","m","a","t",";","t","e","m","p","=","2","9","3",".","1","5">>,
    <<"a",".","n","c","m","a","t",";","t","e","m","p","=","i","n","f">>, <<"a",".","n","c","m","a","t",";","t","e","m","p","=","a","b","c">>,
    <<"a",".","n","c","m","a","t",";","p","a","c","k","f","a","c","t","=","2">>, <<"a",".","n","c","m","a","t",";","p","a","c","k","f","a","c","t","=","0",".","5">>, <<"a",".","n","c","m","a","t",";","p","a","c","k","f","a","c","t","=","0">>,
    <<"a",".","n","c","m","a","t",";","m","o","s","=","1","d","e","g">>,
    <<"a",".","n","c","m","a","t",";","d","i","r","1","=","@","c","r","y","s",":","1",",","0",",","0","@","l","a","b",":","0",",","0",",","1">>,
    <<"a",".","n","c","m","a","t",";","d","i","r","2","=","@","c","r","y","s",":","0",",","1",",","0","@","l","a","b",":","0",",","1",",","0">>,
    <<"a",".","n","c","m","a","t",";","m","o","s","=","1","d","e","g",";","d","i","r","1","=","@","c","r","y","s",":","1",",","0",",","0","@","l","a","b",":","0",",","0",",","1">>,
    <<"a",".","n","c","m","a","t",";","m","o","s","=","1","d","e","g",";","d","i","r","2","=","@","c","r","y","s",":","0",",","1",",","0","@","l","a","b",":","0",",","1",",","0">>,
    <<"a",".","n","c","m","a","t",";","d","i","r","1","=","@","c","r","y","s",":","1",",","0",",","0","@","l","a","b",":","0",",","0",",","1",";","d","i","r","2","=","@","c","r","y","s",":","0",",","1",",","0","@","l","a","b",":","0",",","1",",","0">>,
    <<"a",".","n","c","m","a","t",";","m","o","s","=","1","d","e","g",";","d","i","r","1","=","@","c","r","y","s",":","1",",","0",",","0","@","l","a","b",":","0",",","0",",","1",";","d","i","r","2","=","@","c","r","y","s",":","0",",","1",",","0","@","l","a","b",":","0",",","1",",","0">>,
    <<"a",".","n","c","m","a","t",";","m","o","s","=","1","d","e","g",";","d","i","r","1","=","@","c","r","y","s",":","1",",","0",",","0","@","l","a","b",":","0",",","0",",","1",";","d","i","r","2","=","@","c","r","y","s",":","0",",","1",",","0","@","l","a","b",":","0",",","1",",","0",";","p","a","c","k","f","a","c","t","=","0",".","5">>,
    <<"a",".","n","c","m","a","t",";","m","o","s","=","1","d","e","g",";","d","i","r","1","=","@","c","r","y","s",":","1",",","0",",","0","@","l","a","b",":","0",",","0",",","1",";","d","i","r","2","=","@","c","r","y","s",":","0",",","1",",","0","@","l","a","b",":","0",",","1",",","0",";","p","a","c","k","f","a","c","t","=","1">>,
    <<"a",".","n","c","m","a","t",";","m","o","s","=","1","d","e","g",";","d","i","r","1","=","@","c","r","y","s",":","1",",","0",",","0","@","l","a","b",":","0",",","0",",","1",";","d","i","r","2","=","@","c","r","y","s",":","0",",","1",",","0","@","l","a","b",":","0",",","1",",","0",";","d","i","r","t","o","l","=","0",".","1">>,
    <<"a",".","n","c","m","a","t",";","m","o","s","=","1","d","e","g",";","d","i","r","1","=","@","c","r","y","s",":","1",",","0",",","0","@","l","a","b",":","0",",","0",",","1",";","d","i","r","2","=","@","c","r","y","s",":","0",",","1",",","0","@","l","a","b",":","0",",","1",",","0",";","t","e","m","p","=","0">>,
    <<"a",".","n","c","m","a","t",";","d","i","r","t","o","l","=","0",".","1">> }

\* Client code that constructs configurations from strings and validates
\* them: every table it holds is as the constructor returned it.
NextConsist ==
  \/ \E h \in Handles, s \in ConsistCtorInputs : Construct(h, s)
  \/ \E h \in Handles : Destroy(h)
  \/ \E h \in Handles : CheckConsistency(h)

SpecConsist == Init /\ [][NextConsist]_vars

\* t is -1 or lies in (0, 1e5]
TempInDomain(t) ==
  t = Norm(-1, 0) \/ (NumLess(Norm(0, 0), t) /\ NumLeq(t, Norm(1, 5)))

\* C12: checkConsistency accepts a temp value only if it is -1 or lies in
\* (0, 1e5]; every other value, 0 and any negative value other than -1
\* included, makes it fail with BadInput.
C12_TempDomain ==
  last.op = "checkConsistency"
  => /\ last.err = "ok" => TempInDomain(GetAfter(PAR_temp))
     /\ ~TempInDomain(GetAfter(PAR_temp)) => last.err = "BadInput"

\* How many of mos, dir1 and dir2 the table holds.
NumOrientSet(impl) ==
  Cardinality({p \in {PAR_mos, PAR_dir1, PAR_dir2} : impl.m_parlist[p] # NULL})

\* C13: checkConsistency succeeds only if mos, dir1 and dir2 are all set or
\* all unset; with one or two of them set, or with dirtol set and none of
\* them, it fails with BadInput; with all three set it fails with BadInput
\* unless packfact is 1.0.
C13_SingleCrystalComplete ==
  LET impl == TableOf(last.h)
      n == NumOrientSet(impl)
  IN last.op = "checkConsistency"
     => /\ last.err = "ok" => n \in {0, 3}
        /\ n \in {1, 2} => last.err = "BadInput"
        /\ n = 0 /\ impl.m_parlist[PAR_dirtol] # NULL => last.err = "BadInput"
        /\ n = 3 /\ Getter(impl, PAR_packfact).res # Norm(1, 0) => last.err = "BadInput"

\* checkConsistency has passed a table with mos, dir1, dir2 and packfact=1.
C13_Witness ==
  /\ last.op = "checkConsistency" /\ last.err = "ok"
  /\ NumOrientSet(TableOf(last.h)) = 3
  /\ TableOf(last.h).m_parlist[PAR_packfact] # NULL

(***************************************************************************)
(* Getters of unset parameters (SpecSpy)                                   *)
(***************************************************************************)

\* The defaults as documented: temp -1, dcutoff 0, packfact 1, mosprec 1e-3,
\* sccutoff 0.4, dirtol 1e-4, coh_elas and incoh_elas true, inelas auto,
\* lcmode 0, vdoslux 3, the factories empty.
DocumentedDefaults ==
  { <<PAR_temp, Norm(-1, 0)>>, <<PAR_dcutoff, Norm(0, 0)>>, <<PAR_packfact, Norm(1, 0)>>,
    <<PAR_mosprec, Norm(1, -3)>>, <<PAR_sccutoff, Norm(4, -1)>>,
    <<PAR_dirtol, Norm(1, -4)>>, <<PAR_coh_elas, TRUE>>, <<PAR_incoh_elas, TRUE>>,
    <<PAR_inelas, <<"a","u","t","o">>>>, <<PAR_lcmode, 0>>, <<PAR_vdoslux, 3>>,
    <<PAR_infofactory, <<>> >>, <<PAR_scatfactory, <<>> >>, <<PAR_absnfactory, <<>> >> }

\* C14: the getter of a parameter without code-level default (mos, dir1,
\* dir2, lcaxis) fails with MissingInfo whenever the parameter is not set;
\* the getter of every other parameter returns its default when the
\* parameter is not set, without failing.
C14_UnsetGetters ==
  last.op = "get" /\ TableOf(last.h).m_parlist[last.arg] = NULL
  => /\ last.arg \in {PAR_mos, PAR_dir1, PAR_dir2, PAR_lcaxis} => last.err = "MissingInfo"
     /\ last.arg \notin {PAR_mos, PAR_dir1, PAR_dir2, PAR_lcaxis} => last.err = "ok"
     /\ \A d \in DocumentedDefaults : last.arg = d[1] => last.res = d[2]

\* get_dir1 has thrown MissingInfo on a table that holds mos but not dir1.
C14_Witness ==
  /\ last.op = "get" /\ last.arg = PAR_dir1 /\ last.err = "MissingInfo"
  /\ TableOf(last.h).m_parlist[PAR_dir1] = NULL
  /\ TableOf(last.h).m_parlist[PAR_mos] # NULL

(***************************************************************************)
(* Pseudo-parameters of configuration strings (SpecAlias)                  *)
(***************************************************************************)

\* "bragg=0", "bragg=true", "bragg=2", "coh_elas=0", "coh_elas=true",
\* "coh_elas=2", "elas=1", "elas=false", "elas=maybe", "bkgd=none", "bkgd=0",
\* "bkgd=1", "bkgd=auto", "inelas=auto", "incoh_elas=1"
AliasStrInputs ==
  { <<"b","r","a","g","g","=","0">>, <<"b","r","a","g","g","=","t","r","u","e">>, <<"b","r","a","g","g","=","2">>, <<"c","o","h","_","e","l","a","s","=","0">>, <<"c","o","h","_","e","l","a","s","=","t","r","u","e">>, <<"c","o","h","_","e","l","a","s","=","2">>,
    <<"e","l","a","s","=","1">>, <<"e","l","a","s","=","f","a","l","s","e">>, <<"e","l","a","s","=","m","a","y","b","e">>,
    <<"b","k","g","d","=","n","o","n","e">>, <<"b","k","g","d","=","0">>, <<"b","k","g","d","=","1">>, <<"b","k","g","d","=","a","u","t","o">>,
    <<"i","n","e","l","a","s","=","a","u","t","o">>, <<"i","n","c","o","h","_","e","l","a","s","=","1">> }

NextAlias ==
  \/ \E h \in Handles, s \in AliasStrInputs : ApplyStrCfg(h, s)
  \/ \E h \in Handles, df \in BOOLEAN : ToStrCfg(h, df, NULL)

SpecAlias == Init /\ [][NextAlias]_vars

\* A bragg entry and the coh_elas entry with the same value.
BraggPairs ==
  { <<<<"b","r","a","g","g","=","0">>, <<"c","o","h","_","e","l","a","s","=","0">>>>, <<<<"b","r","a","g","g","=","t","r","u","e">>, <<"c","o","h","_","e","l","a","s","=","t","r","u","e">>>>,
    <<<<"b","r","a","g","g","=","2">>, <<"c","o","h","_","e","l","a","s","=","2">>>> }

\* The elas entries with a boolean value, and the value.
ElasCases == { <<<<"e","l","a","s","=","1">>, TRUE>>, <<<<"e","l","a","s","=","f","a","l","s","e">>, FALSE>> }

BoolVal(b) == [t |-> "bool", value |-> b]

StrVal(s) == [t |-> "str", value |-> s]

\* The parameter names in a serialised configuration.
NamesIn(str) ==
  LET parts == split(str, 0, ";")
  IN {split(parts[i], 0, "=")[1] : i \in 1..Len(parts)}

\* C15: in a configuration string bragg=V has exactly the effect of
\* coh_elas=V; elas=B sets coh_elas and incoh_elas to B; bkgd=none and bkgd=0
\* set incoh_elas to false and inelas to none; bkgd with another value fails
\* with BadInput and sets nothing; and toStrCfg never writes bragg, elas or
\* bkgd as a parameter name.
C15_PseudoParameters ==
  [][LET id == m_impl[last'.h]
         pre == heap[id].m_parlist
         post == heap'[id].m_parlist
     IN /\ last'.op = "applyStrCfg"
           => /\ \A p \in BraggPairs :
                   last'.arg = p[1]
                   => \E g \in Indeterminate :
                         /\ heap' = applyStrCfg(heap, id, p[2], g).heap
                         /\ last'.err = applyStrCfg(heap, id, p[2], g).err
              /\ \A c \in ElasCases :
                   last'.arg = c[1]
                   => /\ last'.err = "ok"
                      /\ post = [pre EXCEPT ![PAR_coh_elas] = BoolVal(c[2]),
                                            ![PAR_incoh_elas] = BoolVal(c[2])]
              /\ last'.arg \in {<<"b","k","g","d","=","n","o","n","e">>, <<"b","k","g","d","=","0">>}
                 => /\ last'.err = "ok"
                    /\ post = [pre EXCEPT ![PAR_incoh_elas] = BoolVal(FALSE),
                                          ![PAR_inelas] = StrVal(<<"n","o","n","e">>)]
              /\ last'.arg \in {<<"b","k","g","d","=","1">>, <<"b","k","g","d","=","a","u","t","o">>}
                 => last'.err = "BadInput" /\ heap' = heap
        /\ last'.op = "toStrCfg"
           => NamesIn(last'.res) \cap {<<"b","r","a","g","g">>, <<"e","l","a","s">>, <<"b","k","g","d">>} = {}]_vars

\* elas=1 has been applied to a table on which bkgd=none had set inelas.
C15_Witness ==
  /\ last.op = "applyStrCfg" /\ last.arg = <<"e","l","a","s","=","1">> /\ last.err = "ok"
  /\ TableOf(last.h).m_parlist[PAR_inelas] = StrVal(<<"n","o","n","e">>)
  /\ TableOf(last.h).m_parlist[PAR_coh_elas] = BoolVal(TRUE)
  /\ TableOf(last.h).m_parlist[PAR_incoh_elas] = BoolVal(TRUE)

\* C16 as stated: every configuration the string constructor returns passes
\* checkConsistency.
C16_Original ==
  last.op = "checkConsistency" => last.err = "ok"

\* Constructor strings with a value outside its domain or a partial set of
\* mos, dir1 and dir2: a negative temp, packfact > 1, mos without dir1 and
\* dir2.
OutOfDomainCtorInputs ==
  { <<"a",".","n","c","m","a","t",";","t","e","m","p","=","-","5">>, <<"a",".","n","c","m","a","t",";","p","a","c","k","f","a","c","t","=","2">>, <<"a",".","n","c","m","a","t",";","m","o","s","=","1","d","e","g">> }

\* C16 (amended): the string constructor checks the syntax of the entries and
\* not the domain of the values: it accepts a negative temp, a packfact above
\* 1 and a partial set of mos, dir1 and dir2, and checkConsistency on the
\* object it returns then fails with BadInput; a constructed configuration is
\* validated only once checkConsistency has been called on it.
C16_ValidationDeferred ==
  /\ last.op = "MatCfg" /\ last.arg \in OutOfDomainCtorInputs
     => /\ last.err = "ok"
        /\ checkConsistency(TableOf(last.h)).err = "BadInput"
  /\ last.op = "checkConsistency"
        /\ (\/ NumLess(GetAfter(PAR_temp), Norm(0, 0)) /\ GetAfter(PAR_temp) # Norm(-1, 0)
            \/ NumLess(Norm(1, 0), GetAfter(PAR_packfact))
            \/ NumOrientSet(TableOf(last.h)) \in {1, 2})
     => last.err = "BadInput"

\* The constructor has returned an object for "a.ncmat;temp=-5".
C16_Witness ==
  /\ last.op = "MatCfg" /\ last.arg = <<"a",".","n","c","m","a","t",";","t","e","m","p","=","-","5">> /\ last.err = "ok"
  /\ GetAfter(PAR_temp) = Norm(-5, 0)

(***************************************************************************)
(* Cache signatures (SpecCache)                                            *)
(***************************************************************************)

CacheCtorInputs ==
  { <<"a",".","n","c","m","a","t">>, <<"a",".","n","c","m","a","t",";","s","c","c","u","t","o","f","f","=","1">>, <<"a",".","n","c","m","a","t",";","s","c","c","u","t","o","f","f","=","1",".","0","0">>,
    <<"a",".","n","c","m","a","t",";","s","c","c","u","t","o","f","f","=","1",".","0","0","0","0","0","0","0","0","0","0","0","0","0","0","0","2">>, <<"a",".","n","c","m","a","t",";","s","c","c","u","t","o","f","f","=","0",".","2","5",";","t","e","m","p","=","2","0","C">>,
    <<"a",".","n","c","m","a","t",";","t","e","m","p","=","2","9","3",".","1","5">>, <<"a",".","n","c","m","a","t",";","t","e","m","p","=","2","9","3",".","1","5","K",";","m","o","s","=","1","d","e","g">> }

CachePns ==
  { {}, {<<"s","c","c","u","t","o","f","f">>}, {<<"t","e","m","p">>, <<"s","c","c","u","t","o","f","f">>}, {<<"t","e","m","p">>, <<"m","o","s">>, <<"s","c","c","u","t","o","f","f">>, <<"c","o","h","_","e","l","a","s">>},
    {<<"s","c","c","u","t","o","f","f">>, <<"n","o","s","u","c","h","p","a","r">>} }

NextCache ==
  \/ \E h \in Handles, s \in CacheCtorInputs : Construct(h, s)
  \/ \E h \in Handles : Destroy(h)
  \/ \E h \in Handles, pns \in CachePns : GetCacheSignature(h, pns)

SpecCache == Init /\ [][NextCache]_vars

\* The signature entry of a name as documented: name=<> when unset, else the
\* value, a Double in the %.17g form.
Entry17(impl, name) ==
  LET slot == impl.m_parlist[ParOf(name)]
  IN name \o <<"=">>
       \o (IF slot = NULL THEN <<"<", ">">>
           ELSE IF slot.t = "dbl" THEN FmtDbl(slot.value, 17)
           ELSE to_strrep(slot, TRUE))

\* C17: the cache signature lists the names in alphabetical order separated
\* by ';', an unset parameter as name=<> and a set Double parameter with 17
\* significant digits whatever text it was given as; so two configurations
\* have the same entry for a Double parameter exactly when their stored
\* values are equal.
C17_CacheSignature ==
  /\ last.op = "getCacheSignature" /\ last.err = "ok"
     => last.res = joinstr([i \in 1..Cardinality(last.arg) |->
                              Entry17(TableOf(last.h), SortedNames(last.arg)[i])],
                           <<";">>)
  /\ \A name \in {<<"s","c","c","u","t","o","f","f">>, <<"t","e","m","p">>} :
       LET s1 == IF Bound("cfg1") THEN TableOf("cfg1").m_parlist[ParOf(name)] ELSE NULL
           s2 == IF Bound("cfg2") THEN TableOf("cfg2").m_parlist[ParOf(name)] ELSE NULL
       IN s1 # NULL /\ s2 # NULL
          => ((getCacheSignature(TableOf("cfg1"), {name}).res
                 = getCacheSignature(TableOf("cfg2"), {name}).res)
              <=> s1.value = s2.value)

(***************************************************************************)
(* The NCMAT parser (NCParseNCMAT.cc)                                      *)
(*                                                                         *)
(* An input is the sequence of its lines, each a text.  The parser is the  *)
(* record p of the members of NCMATParser and the locals of parseFile,     *)
(* with err the error thrown ("ok" while none is).  The validation         *)
(* functions of NCMATData are not part of the sources at hand: each call   *)
(* of one either returns or throws BadInput, as the oracle orc decides.    *)
(***************************************************************************)

\* A control character other than \t, \n and \r (bytes above 126 are not
\* modelled).
ControlChars == {"\f"}

\* parseLine after the break or the end of the first loop: the characters
\* from position i on are comment.
RECURSIVE parseLine_comment(_, _)
parseLine_comment(line, i) ==
  IF i > Len(line) THEN "ok"
  ELSE IF line[i] = "\r" /\ i + 1 <= Len(line) /\ line[i + 1] # "\n" THEN "BadInput"
  ELSE IF line[i] \in ControlChars THEN "BadInput"
  ELSE parseLine_comment(line, i + 1)

\* The first loop of parseLine at position i, parts being the parts made so
\* far and part the one begun (partbegin).
RECURSIVE parseLine_scan(_, _, _, _)
parseLine_scan(line, i, parts, part) ==
  IF i > Len(line)
  THEN [err |-> "ok", parts |-> IF part = <<>> THEN parts ELSE Append(parts, part)]
  ELSE IF line[i] \in AsciiSet \ {" ", "#"}
  THEN parseLine_scan(line, i + 1, parts, Append(part, line[i]))
  ELSE IF line[i] \in {" ", "\t"}
  THEN parseLine_scan(line, i + 1, IF part = <<>> THEN parts ELSE Append(parts, part), <<>>)
  ELSE IF line[i] \in {"\n", "\r", "#"}
  THEN (IF line[i] = "\r" /\ i + 1 <= Len(line) /\ line[i + 1] # "\n"
        THEN [err |-> "BadInput", parts |-> <<>>]
        ELSE [err |-> parseLine_comment(line, i),
              parts |-> IF part = <<>> THEN parts ELSE Append(parts, part)])
  ELSE [err |-> "BadInput", parts |-> <<>>]

\* parseLine(line,parts,lineno)
parseLine(line) == parseLine_scan(line, 1, <<>>, <<>>)

\* a/b of two finite numbers, b not zero, to seven decimal places of the
\* quotient of the mantissas.
NumDiv(a, b) ==
  LET abs(x) == IF x < 0 THEN 0 - x ELSE x
      sign == IF (a.m < 0) = (b.m < 0) THEN 1 ELSE -1
  IN Norm(sign * ((abs(a.m) * 10000000) \div abs(b.m)), a.e - b.e - 7)

\* str2dbl_withfractions without the test of the format version
str2dbl_withfractions_anyversion(ss, version) ==
  IF ~contains(ss, "/") THEN str2dbl(ss)
  ELSE LET parts == split(ss, 0, "/")
       IN IF Len(parts) # 2 THEN [ok |-> FALSE, v |-> NaN]
          ELSE IF parts[1] = <<>> \/ parts[2] = <<>> THEN [ok |-> FALSE, v |-> NaN]
          ELSE IF ~str2dbl(parts[1]).ok \/ ~str2dbl(parts[2]).ok THEN [ok |-> FALSE, v |-> NaN]
          ELSE IF str2dbl(parts[1]).v.k # "num" \/ str2dbl(parts[2]).v.k # "num"
          THEN [ok |-> FALSE, v |-> NaN]
          ELSE IF str2dbl(parts[2]).v.m = 0 THEN [ok |-> FALSE, v |-> NaN]
          ELSE [ok |-> TRUE, v |-> NumDiv(str2dbl(parts[1]).v, str2dbl(parts[2]).v)]

\* str2dbl_withfractions(ss) at format version version
str2dbl_withfractions(ss, version) ==
  IF ~contains(ss, "/") THEN str2dbl(ss)
  ELSE IF version = 1 THEN [ok |-> FALSE, v |-> NaN]
  ELSE LET parts == split(ss, 0, "/")
       IN IF Len(parts) # 2 THEN [ok |-> FALSE, v |-> NaN]
          ELSE IF parts[1] = <<>> \/ parts[2] = <<>> THEN [ok |-> FALSE, v |-> NaN]
          ELSE IF ~str2dbl(parts[1]).ok \/ ~str2dbl(parts[2]).ok THEN [ok |-> FALSE, v |-> NaN]
          ELSE IF str2dbl(parts[1]).v.k # "num" \/ str2dbl(parts[2]).v.k # "num"
          THEN [ok |-> FALSE, v |-> NaN]
          ELSE IF str2dbl(parts[2]).v.m = 0 THEN [ok |-> FALSE, v |-> NaN]
          ELSE [ok |-> TRUE, v |-> NumDiv(str2dbl(parts[1]).v, str2dbl(parts[2]).v)]

\* NCMATData as default constructed, and the members of NCMATParser and the
\* locals of parseFile before the loop; handler is the section2handler entry
\* itSection points to, nval the number of validation calls made and calls
\* the handlers invoked (close being a call with an empty parts list).
NCMATParser_init(version) ==
  [err |-> "ok", version |-> version,
   current_section |-> <<"H","E","A","D">>, handler |-> <<"H","E","A","D">>, sections_seen |-> {},
   sawAnySection |-> FALSE, lineno |-> 1, nval |-> 0, calls |-> <<>>,
   cell |-> [lengths |-> <<Norm(0, 0), Norm(0, 0), Norm(0, 0)>>,
             angles |-> <<Norm(0, 0), Norm(0, 0), Norm(0, 0)>>],
   atompos |-> <<>>, spacegroup |-> 0,
   debyetemp_global |-> Norm(0, 0), debyetemp_perelement |-> <<>>,
   dyninfos |-> <<>>, density |-> Norm(0, 0), density_unit |-> "ATOMS_PER_AA3",
   atomDBLines |-> <<>>, customSections |-> <<>>,
   m_active_dyninfo |-> FALSE, m_dyninfo_active_vector_field |-> NULL,
   m_dyninfo_active_vector_field_allownegative |-> FALSE]

\* NCRYSTAL_THROW2(kind, ...)
Throw(p, kind) == [p EXCEPT !.err = kind]

\* A call of a validation function of NCMATData (validateCell,
\* validateAtomPos, validateSpaceGroup, validateDebyeTemperature,
\* validateDensity, DynInfo::validate, validateElementNameByVersion): the
\* call number orc.rejectAt throws BadInput, which its caller rethrows as
\* BadInput.
Validate(p, orc) ==
  IF p.nval + 1 = orc.rejectAt
  THEN [p EXCEPT !.nval = @ + 1, !.err = "BadInput"]
  ELSE [p EXCEPT !.nval = @ + 1]

\* The texts of parts 2..4 as numbers: ok when each is one.
ThreeNumbers(parts, version) ==
  [ok |-> \A i \in 2..4 : str2dbl_withfractions(parts[i], version).ok,
   v |-> [i \in 1..3 |-> str2dbl_withfractions(parts[i + 1], version).v]]

IsNullVector(v) == v[1] = Norm(0, 0) /\ v[2] = Norm(0, 0) /\ v[3] = Norm(0, 0)

handleSectionData_HEAD(p, parts) ==
  IF parts = <<>> THEN p ELSE Throw(p, "BadInput")

handleSectionData_CELL(p, parts, orc) ==
  IF parts = <<>> THEN Validate(p, orc)
  ELSE IF parts[1] \notin {<<"l","e","n","g","t","h","s">>, <<"a","n","g","l","e","s">>} THEN Throw(p, "BadInput")
  ELSE IF Len(parts) # 4 THEN Throw(p, "BadInput")
  ELSE IF ~IsNullVector(IF parts[1] = <<"l","e","n","g","t","h","s">> THEN p.cell.lengths ELSE p.cell.angles)
  THEN Throw(p, "BadInput")
  ELSE IF \E i \in 2..4 : ~str2dbl(parts[i]).ok THEN Throw(p, "BadInput")
  ELSE IF IsNullVector([i \in 1..3 |-> str2dbl(parts[i + 1]).v])
  THEN Throw(IF parts[1] = <<"l","e","n","g","t","h","s">>
             THEN [p EXCEPT !.cell.lengths = [i \in 1..3 |-> str2dbl(parts[i + 1]).v]]
             ELSE [p EXCEPT !.cell.angles = [i \in 1..3 |-> str2dbl(parts[i + 1]).v]],
             "BadInput")
  ELSE IF parts[1] = <<"l","e","n","g","t","h","s">>
  THEN [p EXCEPT !.cell.lengths = [i \in 1..3 |-> str2dbl(parts[i + 1]).v]]
  ELSE [p EXCEPT !.cell.angles = [i \in 1..3 |-> str2dbl(parts[i + 1]).v]]

\* validateElementName(s,lineno)
validateElementName(p, orc) == Validate(p, orc)

\* handleSectionData_ATOMPOSITIONS once the element name has been validated
\* (v is p after that call).
handleSectionData_ATOMPOSITIONS_named(v, parts) ==
  IF v.err # "ok" THEN v
  ELSE IF Len(parts) # 4 THEN Throw(v, "BadInput")
  ELSE IF ~ThreeNumbers(parts, v.version).ok THEN Throw(v, "BadInput")
  ELSE [v EXCEPT !.atompos = Append(@, <<parts[1], ThreeNumbers(parts, v.version).v>>)]

handleSectionData_ATOMPOSITIONS(p, parts, orc) ==
  IF parts = <<>>
  THEN (IF p.atompos = <<>> THEN Throw(p, "BadInput") ELSE Validate(p, orc))
  ELSE handleSectionData_ATOMPOSITIONS_named(validateElementName(p, orc), parts)

handleSectionData_SPACEGROUP(p, parts, orc) ==
  IF parts = <<>>
  THEN (IF p.spacegroup = 0 THEN Throw(p, "BadInput") ELSE Validate(p, orc))
  ELSE IF p.spacegroup # 0 \/ Len(parts) > 1 THEN Throw(p, "BadInput")
  ELSE IF ~str2int(parts[1]).ok THEN Throw(p, "BadInput")
  ELSE [p EXCEPT !.spacegroup = str2int(parts[1]).v]

\* The two-token branch of handleSectionData_DEBYETEMPERATURE once the
\* element name has been validated.
handleSectionData_DEBYETEMPERATURE_named(v, parts) ==
  IF v.err # "ok" THEN v
  ELSE IF ~str2dbl(parts[2]).ok THEN Throw(v, "BadInput")
  ELSE [v EXCEPT !.debyetemp_perelement = Append(@, <<parts[1], str2dbl(parts[2]).v>>)]

\* NCMATData::hasDebyeTemperature(): a global value or a per element entry
\* is set.
hasDebyeTemperature(p) ==
  p.debyetemp_global # Norm(0, 0) \/ p.debyetemp_perelement # <<>>

\* handleSectionData_DEBYETEMPERATURE without the test of the global value
handleSectionData_DEBYETEMPERATURE_mixed(p, parts, orc) ==
  IF parts = <<>>
  THEN (IF ~hasDebyeTemperature(p) THEN Throw(p, "BadInput") ELSE Validate(p, orc))
  ELSE IF Len(parts) = 1
  THEN (IF p.debyetemp_perelement # <<>> THEN Throw(p, "BadInput")
        ELSE IF ~str2dbl(parts[1]).ok THEN Throw(p, "BadInput")
        ELSE [p EXCEPT !.debyetemp_global = str2dbl(parts[1]).v])
  ELSE IF Len(parts) = 2
  THEN handleSectionData_DEBYETEMPERATURE_named(validateElementName(p, orc), parts)
  ELSE Throw(p, "BadInput")

handleSectionData_DEBYETEMPERATURE(p, parts, orc) ==
  IF parts = <<>>
  THEN (IF ~hasDebyeTemperature(p) THEN Throw(p, "BadInput") ELSE Validate(p, orc))
  ELSE IF p.debyetemp_global # Norm(0, 0) THEN Throw(p, "BadInput")
  ELSE IF Len(parts) = 1
  THEN (IF p.debyetemp_perelement # <<>> THEN Throw(p, "BadInput")
        ELSE IF ~str2dbl(parts[1]).ok THEN Throw(p, "BadInput")
        ELSE [p EXCEPT !.debyetemp_global = str2dbl(parts[1]).v])
  ELSE IF Len(parts) = 2
  THEN handleSectionData_DEBYETEMPERATURE_named(validateElementName(p, orc), parts)
  ELSE Throw(p, "BadInput")

handleSectionData_DENSITY(p, parts, orc) ==
  IF parts = <<>>
  THEN (IF p.density = Norm(0, 0) THEN Throw(p, "BadInput") ELSE Validate(p, orc))
  ELSE IF Len(parts) # 2 THEN Throw(p, "BadInput")
  ELSE IF ~str2dbl(parts[1]).ok THEN Throw(p, "BadInput")
  ELSE IF parts[2] = <<"a","t","o","m","s","_","p","e","r","_","a","a","3">>
  THEN [p EXCEPT !.density_unit = "ATOMS_PER_AA3", !.density = str2dbl(parts[1]).v]
  ELSE IF parts[2] = <<"k","g","_","p","e","r","_","m","3">>
  THEN [p EXCEPT !.density_unit = "KG_PER_M3", !.density = str2dbl(parts[1]).v]
  ELSE IF parts[2] = <<"g","_","p","e","r","_","c","m","3">>
  THEN [p EXCEPT !.density_unit = "KG_PER_M3",
                 !.density = NumMul(str2dbl(parts[1]).v, Norm(1000, 0))]
  ELSE Throw(p, "BadInput")

\* handleSectionData_ATOMDB once the element name has been validated.
handleSectionData_ATOMDB_named(v, parts) ==
  IF v.err # "ok" THEN v ELSE [v EXCEPT !.atomDBLines = Append(@, parts)]

handleSectionData_ATOMDB(p, parts, orc) ==
  IF parts = <<>> THEN p
  ELSE handleSectionData_ATOMDB_named(
         IF parts[1] # <<"n","o","d","e","f","a","u","l","t","s">> THEN validateElementName(p, orc) ELSE p, parts)

\* The outcomes of customSections.back() on an empty vector, which the
\* nc_assert before it guards in a debug build only: the assertion's
\* LogicError, a crash, or a write that goes unnoticed.
UndefinedOutcomes == {"LogicError", "crash", "ok"}

handleSectionData_CUSTOM(p, parts, orc) ==
  IF parts = <<>> THEN p
  ELSE IF p.customSections = <<>> THEN Throw(p, orc.ub)
  ELSE [p EXCEPT !.customSections[Len(p.customSections)][2] = Append(@, parts)]

\* NCMATData::DynInfo as default constructed (the values the parser tests a
\* field against to see whether it was given).
DynInfo_init ==
  [fraction |-> Norm(-1, 0), element_name |-> <<>>, dyninfo_type |-> "Undefined",
   fields |-> <<>>]

\* The keywords of vector fields that may continue over several lines.
DynInfoLongVectorKeywords ==
  {<<"s","a","b">>, <<"s","a","b","_","s","c","a","l","e","d">>, <<"s","q","w">>, <<"a","l","p","h","a","g","r","i","d">>, <<"b","e","t","a","g","r","i","d">>, <<"q","g","r","i","d">>,
   <<"o","m","e","g","a","g","r","i","d">>, <<"e","g","r","i","d">>, <<"v","d","o","s","_","e","g","r","i","d">>, <<"v","d","o","s","_","d","e","n","s","i","t","y">>}

\* One value whatever the repeat count is
Copies_once(n, val) == <<val>>

\* while (repeat_count--) parse_target->push_back(val)
Copies(n, val) == [i \in 1..n |-> val]

\* The loop of handleSectionData_DYNINFO that parses the tokens left into
\* the vector field target of the active DynInfo.
RECURSIVE handleSectionData_DYNINFO_vector(_, _, _)
handleSectionData_DYNINFO_vector(p, target, tokens) ==
  IF tokens = <<>> THEN p
  ELSE LET tok == Head(tokens)
           idx_repeat_marker == IndexOf(tok, "r")
           srcnumstr == IF idx_repeat_marker > 0
                        THEN SubSeq(tok, 1, idx_repeat_marker - 1) ELSE tok
           srcrepeatstr == SubSeq(tok, idx_repeat_marker + 1, Len(tok))
           irc == IF idx_repeat_marker > 0 THEN str2int(srcrepeatstr)
                  ELSE [ok |-> TRUE, v |-> 1]
           val == str2dbl(srcnumstr)
       IN IF ~irc.ok THEN Throw(p, "BadInput")
          ELSE IF idx_repeat_marker > 0 /\ irc.v < 2 THEN Throw(p, "BadInput")
          ELSE IF ~val.ok THEN Throw(p, "BadInput")
          ELSE IF ncisnan(val.v) \/ ncisinf(val.v) THEN Throw(p, "BadInput")
          ELSE IF ~p.m_dyninfo_active_vector_field_allownegative
                  /\ NumLess(val.v, Norm(0, 0))
          THEN Throw(p, "BadInput")
          ELSE handleSectionData_DYNINFO_vector(
                 [p EXCEPT !.dyninfos[Len(p.dyninfos)].fields[target] =
                             @ \o Copies(irc.v, val.v)],
                 target, Tail(tokens))

\* The end of handleSectionData_DYNINFO: parse_target is the active vector
\* field if there is one, else target (NULL on a line without keyword); the
\* nc_assert_always throws LogicError.
handleSectionData_DYNINFO_numbers(p, target, tokens) ==
  IF (p.m_dyninfo_active_vector_field = NULL /\ target = NULL) \/ tokens = <<>>
  THEN Throw(p, "LogicError")
  ELSE handleSectionData_DYNINFO_vector(
         p, IF p.m_dyninfo_active_vector_field # NULL
            THEN p.m_dyninfo_active_vector_field ELSE target, tokens)

\* The common fields "fraction", "element", "type" (di is the active DynInfo,
\* v is p after validateElementName for "element").
handleSectionData_DYNINFO_common(p, parts, di, fr, v) ==
  IF Len(parts) # 2 THEN Throw(p, "BadInput")
  ELSE IF \/ parts[1] = <<"f","r","a","c","t","i","o","n">> /\ di.fraction # Norm(-1, 0)
          \/ parts[1] = <<"e","l","e","m","e","n","t">> /\ di.element_name # <<>>
          \/ parts[1] = <<"t","y","p","e">> /\ di.dyninfo_type # "Undefined"
  THEN Throw(p, "BadInput")
  ELSE IF parts[1] = <<"f","r","a","c","t","i","o","n">>
  THEN (IF ~fr.ok THEN Throw(p, "BadInput")
        ELSE IF ~NumLeq(fr.v, Norm(1, 0)) \/ ~NumLess(Norm(0, 0), fr.v)
        THEN Throw(p, "BadInput")
        ELSE [p EXCEPT !.dyninfos[Len(p.dyninfos)].fraction = fr.v])
  ELSE IF parts[1] = <<"e","l","e","m","e","n","t">>
  THEN (IF v.err # "ok" THEN v
        ELSE [v EXCEPT !.dyninfos[Len(p.dyninfos)].element_name = parts[2]])
  ELSE IF parts[2] = <<"s","c","a","t","k","n","l">>
  THEN [p EXCEPT !.dyninfos[Len(p.dyninfos)].dyninfo_type = "ScatKnl"]
  ELSE IF parts[2] = <<"v","d","o","s">>
  THEN [p EXCEPT !.dyninfos[Len(p.dyninfos)].dyninfo_type = "VDOS"]
  ELSE IF parts[2] = <<"v","d","o","s","d","e","b","y","e">>
  THEN [p EXCEPT !.dyninfos[Len(p.dyninfos)].dyninfo_type = "VDOSDebye"]
  ELSE IF parts[2] = <<"f","r","e","e","g","a","s">>
  THEN [p EXCEPT !.dyninfos[Len(p.dyninfos)].dyninfo_type = "FreeGas"]
  ELSE IF parts[2] = <<"s","t","e","r","i","l","e">>
  THEN [p EXCEPT !.dyninfos[Len(p.dyninfos)].dyninfo_type = "Sterile"]
  ELSE Throw(p, "BadInput")

\* handleSectionData_DYNINFO_field with negative numbers allowed in every
\* long vector
handleSectionData_DYNINFO_field_signed(p, parts, di) ==
  IF parts[1] \in DOMAIN di.fields THEN Throw(p, "BadInput")
  ELSE LET q == [p EXCEPT !.dyninfos[Len(p.dyninfos)].fields =
                       [n \in DOMAIN di.fields \cup {parts[1]} |->
                          IF n = parts[1] THEN <<>> ELSE di.fields[n]]]
       IN IF parts[1] \in DynInfoLongVectorKeywords
          THEN (IF parts[1] \in {<<"s","q","w">>, <<"q","g","r","i","d">>, <<"o","m","e","g","a","g","r","i","d">>} THEN Throw(q, "BadInput")
                ELSE handleSectionData_DYNINFO_numbers(
                       [q EXCEPT !.m_dyninfo_active_vector_field = parts[1],
                                 !.m_dyninfo_active_vector_field_allownegative = TRUE],
                       parts[1], Tail(parts)))
          ELSE handleSectionData_DYNINFO_numbers(q, parts[1], Tail(parts))

\* A keyword that is not a common field: a new entry of DynInfo::fields,
\* which stays the active vector field when the keyword is a long vector.
handleSectionData_DYNINFO_field(p, parts, di) ==
  IF parts[1] \in DOMAIN di.fields THEN Throw(p, "BadInput")
  ELSE LET q == [p EXCEPT !.dyninfos[Len(p.dyninfos)].fields =
                       [n \in DOMAIN di.fields \cup {parts[1]} |->
                          IF n = parts[1] THEN <<>> ELSE di.fields[n]]]
       IN IF parts[1] \in DynInfoLongVectorKeywords
          THEN (IF parts[1] \in {<<"s","q","w">>, <<"q","g","r","i","d">>, <<"o","m","e","g","a","g","r","i","d">>} THEN Throw(q, "BadInput")
                ELSE handleSectionData_DYNINFO_numbers(
                       [q EXCEPT !.m_dyninfo_active_vector_field = parts[1],
                                 !.m_dyninfo_active_vector_field_allownegative =
                                    parts[1] \in {<<"b","e","t","a","g","r","i","d">>, <<"o","m","e","g","a","g","r","i","d">>}],
                       parts[1], Tail(parts)))
          ELSE handleSectionData_DYNINFO_numbers(q, parts[1], Tail(parts))

\* A data line of an @DYNINFO section, p having an active DynInfo.
handleSectionData_DYNINFO_line(p, parts, orc) ==
  IF Ord(parts[1][1]) >= Ord("a")
     /\ contains_only(parts[1], <<"a","b","c","d","e","f","g","h","i","j","k","l","m","n","o","p","q","r","s","t","u","v","w","x","y","z","_">>)
  THEN (IF Len(parts) < 2 THEN Throw(p, "BadInput")
        ELSE IF parts[1] \in {<<"f","r","a","c","t","i","o","n">>, <<"e","l","e","m","e","n","t">>, <<"t","y","p","e">>}
        THEN handleSectionData_DYNINFO_common(
               [p EXCEPT !.m_dyninfo_active_vector_field = NULL,
                         !.m_dyninfo_active_vector_field_allownegative = FALSE],
               parts, p.dyninfos[Len(p.dyninfos)],
               str2dbl_withfractions(parts[2], p.version),
               IF Len(parts) = 2 /\ parts[1] = <<"e","l","e","m","e","n","t">>
                  /\ p.dyninfos[Len(p.dyninfos)].element_name = <<>>
               THEN validateElementName(
                      [p EXCEPT !.m_dyninfo_active_vector_field = NULL,
                                !.m_dyninfo_active_vector_field_allownegative = FALSE],
                      orc)
               ELSE p)
        ELSE handleSectionData_DYNINFO_field(
               [p EXCEPT !.m_dyninfo_active_vector_field = NULL,
                         !.m_dyninfo_active_vector_field_allownegative = FALSE],
               parts, p.dyninfos[Len(p.dyninfos)]))
  ELSE handleSectionData_DYNINFO_numbers(p, NULL, parts)

\* handleSectionData_DYNINFO_close without the reset of the members
handleSectionData_DYNINFO_close_keep(v) == v

\* The close of an @DYNINFO section once DynInfo::validate has been called.
handleSectionData_DYNINFO_close(v) ==
  IF v.err # "ok" THEN v
  ELSE [v EXCEPT !.m_dyninfo_active_vector_field = NULL,
                 !.m_dyninfo_active_vector_field_allownegative = FALSE,
                 !.m_active_dyninfo = FALSE]

handleSectionData_DYNINFO(p, parts, orc) ==
  IF parts = <<>>
  THEN (IF ~p.m_active_dyninfo THEN Throw(p, "BadInput")
        ELSE handleSectionData_DYNINFO_close(Validate(p, orc)))
  ELSE handleSectionData_DYNINFO_line(
         IF p.m_active_dyninfo THEN p
         ELSE [p EXCEPT !.dyninfos = Append(@, DynInfo_init), !.m_active_dyninfo = TRUE],
         parts, orc)

\* section2handler as parseFile fills it for the format version.
section2handler(version) ==
  {<<"H","E","A","D">>, <<"C","E","L","L">>, <<"A","T","O","M","P","O","S","I","T","I","O","N","S">>, <<"S","P","A","C","E","G","R","O","U","P">>, <<"D","E","B","Y","E","T","E","M","P","E","R","A","T","U","R","E">>}
    \cup (IF version >= 2 THEN {<<"D","Y","N","I","N","F","O">>, <<"D","E","N","S","I","T","Y">>} ELSE {})
    \cup (IF version >= 3 THEN {<<"A","T","O","M","D","B">>, <<"C","U","S","T","O","M">>} ELSE {})

\* The call through itSection->second, noted in calls.
handleSectionData(p0, parts, orc) ==
  LET p == [p0 EXCEPT !.calls = Append(@, <<p0.handler, parts = <<>> >>)]
  IN IF p.handler = <<"H","E","A","D">> THEN handleSectionData_HEAD(p, parts)
     ELSE IF p.handler = <<"C","E","L","L">> THEN handleSectionData_CELL(p, parts, orc)
     ELSE IF p.handler = <<"A","T","O","M","P","O","S","I","T","I","O","N","S">> THEN handleSectionData_ATOMPOSITIONS(p, parts, orc)
     ELSE IF p.handler = <<"S","P","A","C","E","G","R","O","U","P">> THEN handleSectionData_SPACEGROUP(p, parts, orc)
     ELSE IF p.handler = <<"D","E","B","Y","E","T","E","M","P","E","R","A","T","U","R","E">>
     THEN handleSectionData_DEBYETEMPERATURE(p, parts, orc)
     ELSE IF p.handler = <<"D","Y","N","I","N","F","O">> THEN handleSectionData_DYNINFO(p, parts, orc)
     ELSE IF p.handler = <<"D","E","N","S","I","T","Y">> THEN handleSectionData_DENSITY(p, parts, orc)
     ELSE IF p.handler = <<"A","T","O","M","D","B">> THEN handleSectionData_ATOMDB(p, parts, orc)
     ELSE handleSectionData_CUSTOM(p, parts, orc)

\* parseFile at a section marker once the current section has been closed
\* (c is the parser after the close): the guard against a repeated section,
\* the switch to the handler of the new section, the new custom section.
parseFile_switch(c, new_section, is_custom_section) ==
  IF c.err # "ok" THEN c
  ELSE IF ~(is_custom_section \/ new_section = <<"D","Y","N","I","N","F","O">>)
          /\ new_section \in c.sections_seen
  THEN Throw(c, "BadInput")
  ELSE IF (IF is_custom_section THEN <<"C","U","S","T","O","M">> ELSE new_section)
             \notin section2handler(c.version)
  THEN Throw([c EXCEPT !.current_section = new_section,
                       !.sections_seen = IF is_custom_section \/ new_section = <<"D","Y","N","I","N","F","O">>
                                         THEN @ ELSE @ \cup {new_section}],
             "BadInput")
  ELSE IF is_custom_section /\ Len(new_section) <= 7
  THEN Throw([c EXCEPT !.current_section = new_section, !.handler = <<"C","U","S","T","O","M">>], "BadInput")
  ELSE [c EXCEPT !.current_section = new_section,
                 !.handler = IF is_custom_section THEN <<"C","U","S","T","O","M">> ELSE new_section,
                 !.sections_seen = IF is_custom_section \/ new_section = <<"D","Y","N","I","N","F","O">>
                                   THEN @ ELSE @ \cup {new_section},
                 !.customSections = IF is_custom_section
                                    THEN Append(@, <<substr(new_section, 8), <<>> >>)
                                    ELSE @]

\* A marker line handled with the switch to the new section made before the
\* current section is closed.
parseFile_marker_switchfirst(p, line, parts, orc) ==
  IF Len(parts) > 1 THEN Throw(p, "BadInput")
  ELSE IF line[1] # "@" THEN Throw(p, "BadInput")
  ELSE IF Tail(parts[1]) = <<>> THEN Throw(p, "BadInput")
  ELSE IF parseFile_switch(p, Tail(parts[1]), startswith(Tail(parts[1]), <<"C","U","S","T","O","M","_">>)).err # "ok"
  THEN parseFile_switch(p, Tail(parts[1]), startswith(Tail(parts[1]), <<"C","U","S","T","O","M","_">>))
  ELSE [handleSectionData(p, <<>>, orc)
        EXCEPT !.current_section = Tail(parts[1]),
               !.handler = IF startswith(Tail(parts[1]), <<"C","U","S","T","O","M","_">>)
                           THEN <<"C","U","S","T","O","M">> ELSE Tail(parts[1]),
               !.sections_seen =
                  parseFile_switch(p, Tail(parts[1]),
                                   startswith(Tail(parts[1]), <<"C","U","S","T","O","M","_">>)).sections_seen,
               !.customSections =
                  parseFile_switch(p, Tail(parts[1]),
                                   startswith(Tail(parts[1]), <<"C","U","S","T","O","M","_">>)).customSections]

\* parseFile at a line whose first part begins with '@'.
parseFile_marker(p, line, parts, orc) ==
  IF Len(parts) > 1 THEN Throw(p, "BadInput")
  ELSE IF line[1] # "@" THEN Throw(p, "BadInput")
  ELSE IF Tail(parts[1]) = <<>> THEN Throw(p, "BadInput")
  ELSE parseFile_switch(handleSectionData(p, <<>>, orc), Tail(parts[1]),
                        startswith(Tail(parts[1]), <<"C","U","S","T","O","M","_">>))

\* One pass of the loop with a version 1 comment rule that does not look at
\* the markers seen on earlier lines.
parseFile_line_forgetful(p, line, pl, orc) ==
  IF pl.err # "ok" THEN Throw(p, "BadInput")
  ELSE IF p.version = 1 /\ contains(line, "#")
          /\ (\/ (pl.parts # <<>> /\ pl.parts[1][1] = "@")
              \/ line[1] # "#")
  THEN Throw(p, "BadInput")
  ELSE IF pl.parts = <<>> THEN p
  ELSE IF pl.parts[1][1] = "@"
  THEN parseFile_marker([p EXCEPT !.sawAnySection = TRUE], line, pl.parts, orc)
  ELSE handleSectionData(p, pl.parts, orc)

\* One pass of the loop of parseFile, pl being what parseLine made of line.
parseFile_line(p, line, pl, orc) ==
  IF pl.err # "ok" THEN Throw(p, "BadInput")
  ELSE IF p.version = 1 /\ contains(line, "#")
          /\ (\/ p.sawAnySection
              \/ (pl.parts # <<>> /\ pl.parts[1][1] = "@")
              \/ line[1] # "#")
  THEN Throw(p, "BadInput")
  ELSE IF pl.parts = <<>> THEN p
  ELSE IF pl.parts[1][1] = "@"
  THEN parseFile_marker([p EXCEPT !.sawAnySection = TRUE], line, pl.parts, orc)
  ELSE handleSectionData(p, pl.parts, orc)

\* parseFile(input) from the second line on; at the end of the input the
\* current section is closed.
RECURSIVE parseFile(_, _, _)
parseFile(p, lines, orc) ==
  IF p.err # "ok" THEN p
  ELSE IF lines = <<>> THEN handleSectionData(p, <<>>, orc)
  ELSE parseFile(parseFile_line([p EXCEPT !.lineno = @ + 1], Head(lines),
                                parseLine(Head(lines)), orc),
                 Tail(lines), orc)

\* NCMATParser(input) up to the call of parseFile: the first line, of
\* parts pl, gives the format version.
NCMATParser_firstline(lines, pl) ==
  IF lines = <<>> THEN Throw(NCMATParser_init(0), "BadInput")
  ELSE IF ~startswith(lines[1], <<"N","C","M","A","T">>) THEN Throw(NCMATParser_init(0), "BadInput")
  ELSE IF pl.err # "ok" THEN Throw(NCMATParser_init(0), "BadInput")
  ELSE IF Len(pl.parts) # 2 THEN Throw(NCMATParser_init(0), "BadInput")
  ELSE IF pl.parts[2] = <<"v","1">>
  THEN (IF contains(lines[1], "#") THEN Throw(NCMATParser_init(1), "BadInput")
        ELSE NCMATParser_init(1))
  ELSE IF pl.parts[2] = <<"v","2">> THEN NCMATParser_init(2)
  ELSE IF pl.parts[2] = <<"v","3">> THEN NCMATParser_init(3)
  ELSE Throw(NCMATParser_init(0), "BadInput")

\* NCMATParser(input): the rest of the file is parsed when the first line
\* was accepted.
NCMATParser(lines, orc) ==
  parseFile(NCMATParser_firstline(lines, IF lines = <<>> THEN parseLine(<<>>)
                                         ELSE parseLine(lines[1])),
            IF lines = <<>> THEN <<>> ELSE Tail(lines), orc)

MaxValidations == 5

\* The oracles: one of the validation calls throws, or none does
\* (rejectAt 0); the undefined outcome matters to an input with a bare
\* @CUSTOM marker only.
Oracles(input) ==
  [rejectAt : 0..MaxValidations,
   ub : IF <<"@","C","U","S","T","O","M">> \in Range(input) THEN UndefinedOutcomes ELSE {"ok"}]

\* The oracle as far as the run r has met it: a validation call that was
\* never made rejects nothing.
OracleMet(r, orc) ==
  IF r.nval >= orc.rejectAt THEN orc ELSE [orc EXCEPT !.rejectAt = 0]

\* The constructor has ended as r under the oracle orc: last.res is the
\* parser as it leaves it, or as it was when the error was thrown, and
\* last.notes the oracle.
ParseNCMAT_outcome(r, orc) ==
  last' = Outcome("NCMATParser", "cfg1", last.arg, r.err, r, <<OracleMet(r, orc)>>, m_impl)

\* NCMATParser parser(input) on the stream opened
ParseNCMAT ==
  /\ last.op = "TextInputStream"
  /\ \E orc \in Oracles(last.arg) : ParseNCMAT_outcome(NCMATParser(last.arg, orc), orc)
  /\ UNCHANGED <<heap, m_impl>>

\* An input stream has been opened on some lines.
OpenedOn(lines) ==
  /\ heap = <<>>
  /\ m_impl = [h \in Handles |-> 0]
  /\ last = Outcome("TextInputStream", "cfg1", lines, "ok", NULL, <<>>,
                    [h \in Handles |-> 0])

MaxBodyLines == 4

\* The inputs with one of the first lines and up to MaxBodyLines lines of
\* the set lines after it.
InputsOf(firstlines, lines) ==
  { <<f>> \o b : f \in firstlines,
                 b \in UNION { [1..n -> lines] : n \in 0..MaxBodyLines } }

FirstLines == {<<"N","C","M","A","T"," ","v","1">>, <<"N","C","M","A","T"," ","v","2">>, <<"N","C","M","A","T"," ","v","3">>}

(***************************************************************************)
(* Sections and format versions of NCMAT inputs (SpecSections)             *)
(***************************************************************************)

SectionLines ==
  { <<"@","C","E","L","L">>, <<"@","D","Y","N","I","N","F","O">>, <<"@","D","E","N","S","I","T","Y">>, <<"@","A","T","O","M","D","B">>, <<"@","C","U","S","T","O","M","_","A">>, <<"2","2","5">>, <<"f","r","a","c","t","i","o","n"," ","1">> }

InitSections == \E lines \in InputsOf(FirstLines, SectionLines) : OpenedOn(lines)

NextSections == ParseNCMAT

SpecSections == InitSections /\ [][NextSections]_vars

(***************************************************************************)
(* Repeated sections of NCMAT inputs (SpecRepeat)                          *)
(***************************************************************************)

RepeatLines ==
  { <<"@","C","E","L","L">>, <<"@","A","T","O","M","P","O","S","I","T","I","O","N","S">>, <<"@","S","P","A","C","E","G","R","O","U","P">>, <<"@","D","E","B","Y","E","T","E","M","P","E","R","A","T","U","R","E">>, <<"@","D","Y","N","I","N","F","O">>,
    <<"@","D","E","N","S","I","T","Y">>, <<"@","A","T","O","M","D","B">>, <<"@","C","U","S","T","O","M","_","A">>, <<"2","2","5">>, <<"f","r","a","c","t","i","o","n"," ","1">> }

InitRepeat == \E lines \in InputsOf({<<"N","C","M","A","T"," ","v","3">>}, RepeatLines) : OpenedOn(lines)

NextRepeat == ParseNCMAT

SpecRepeat == InitRepeat /\ [][NextRepeat]_vars

(***************************************************************************)
(* Data lines of NCMAT inputs (SpecLines)                                  *)
(***************************************************************************)

DataLines ==
  { <<"@","D","Y","N","I","N","F","O">>, <<"@","C","U","S","T","O","M">>, <<"@","C","U","S","T","O","M","_","A">>, <<"2","2","5">>, <<"f","r","a","c","t","i","o","n"," ","1">>, <<"t","e","m","p","e","r","a","t","u","r","e"," ","3","0","0">>,
    <<"s","a","b"," ","1"," ","2">> }

InitLines == \E lines \in InputsOf(FirstLines, DataLines) : OpenedOn(lines)

NextLines == ParseNCMAT

SpecLines == InitLines /\ [][NextLines]_vars

(***************************************************************************)
(* Claims on the sections of NCMAT inputs                                  *)
(***************************************************************************)

FormatVersion(input) ==
  IF input[1] = <<"N","C","M","A","T"," ","v","1">> THEN 1 ELSE IF input[1] = <<"N","C","M","A","T"," ","v","2">> THEN 2 ELSE 3

IsCustomMarker(line) == startswith(line, <<"@","C","U","S","T","O","M","_">>) /\ Len(line) > 8

\* Line i of the input is a marker of a section that the format version of
\* the input does not have.
GatedOut(input, i) ==
  \/ FormatVersion(input) = 1 /\ input[i] \in {<<"@","D","Y","N","I","N","F","O">>, <<"@","D","E","N","S","I","T","Y">>}
  \/ FormatVersion(input) <= 2 /\ (input[i] = <<"@","A","T","O","M","D","B">> \/ IsCustomMarker(input[i]))

\* Line i of the input is a marker of a section that only some format
\* versions have, and the version of the input is one of them.
GatedIn(input, i) ==
  \/ FormatVersion(input) >= 2 /\ input[i] \in {<<"@","D","Y","N","I","N","F","O">>, <<"@","D","E","N","S","I","T","Y">>}
  \/ FormatVersion(input) = 3 /\ (input[i] = <<"@","A","T","O","M","D","B">> \/ IsCustomMarker(input[i]))

\* The parser r has installed the handler of the marker in line 2 of the
\* input: it went on to a later line, or closed that section at the end.
FirstMarkerAccepted(input, r) ==
  r.lineno > 2 \/ (r.lineno = 2 /\ Len(r.calls) = 2)

\* C18: an input of version 1 with an @DYNINFO or @DENSITY marker, and an
\* input of version 1 or 2 with an @ATOMDB or @CUSTOM_<tag> marker, is
\* rejected with BadInput wherever the marker stands; in a version that has
\* the section the marker is accepted.
C18_VersionGating ==
  last.op = "NCMATParser"
  => /\ (\E i \in 2..Len(last.arg) : GatedOut(last.arg, i)) => last.err = "BadInput"
     /\ Len(last.arg) >= 2 /\ GatedIn(last.arg, 2)
        => FirstMarkerAccepted(last.arg, last.res)

UniqueSectionMarkers ==
  {<<"@","C","E","L","L">>, <<"@","A","T","O","M","P","O","S","I","T","I","O","N","S">>, <<"@","S","P","A","C","E","G","R","O","U","P">>, <<"@","D","E","B","Y","E","T","E","M","P","E","R","A","T","U","R","E">>, <<"@","D","E","N","S","I","T","Y">>, <<"@","A","T","O","M","D","B">>}

\* The body of the input is made of @CUSTOM_A markers and of @DYNINFO
\* markers each followed by its one data line, in any number and order.
OnlyRepeatableSections(input) ==
  \A i \in 2..Len(input) :
     /\ input[i] \in {<<"@","C","U","S","T","O","M","_","A">>, <<"@","D","Y","N","I","N","F","O">>, <<"f","r","a","c","t","i","o","n"," ","1">>}
     /\ input[i] = <<"@","D","Y","N","I","N","F","O">> => i < Len(input) /\ input[i + 1] = <<"f","r","a","c","t","i","o","n"," ","1">>
     /\ input[i] = <<"f","r","a","c","t","i","o","n"," ","1">> => input[i - 1] = <<"@","D","Y","N","I","N","F","O">>

\* C19: an input in which @CELL, @ATOMPOSITIONS, @SPACEGROUP,
\* @DEBYETEMPERATURE, @DENSITY or @ATOMDB occurs a second time is rejected
\* with BadInput, while @DYNINFO and @CUSTOM_<tag> (the same tag too) may
\* occur any number of times.
C19_RepeatedSections ==
  last.op = "NCMATParser"
  => /\ (\E i, j \in 2..Len(last.arg) :
           i < j /\ last.arg[i] = last.arg[j] /\ last.arg[i] \in UniqueSectionMarkers)
        => last.err = "BadInput"
     /\ FormatVersion(last.arg) = 3 /\ OnlyRepeatableSections(last.arg)
        /\ last.notes[1].rejectAt = 0
        => last.err = "ok"

(***************************************************************************)
(* Claims on the data lines of NCMAT inputs                                *)
(***************************************************************************)

\* C20: every input that the parser rejects is rejected with BadInput and
\* with no other kind of error, whatever the line and the section; so is an
\* @DYNINFO data line without keyword while no long vector field is active.
C20_OnlyBadInput ==
  last.op = "NCMATParser" => last.err \in {"ok", "BadInput"}

(***************************************************************************)
(* The Info object and its factory interface (NCInfo.hh, SpecInfo)         *)
(*                                                                         *)
(* The object is carried in last.res and the number of calls made on it in *)
(* last.notes[1].  A double is one of InfoDoubles, an AtomInfo is its Z,   *)
(* an HKLInfo its dspacing; a list, a composition, custom data, a          *)
(* StructureInfo, a DynamicInfo and a cross section provider are opaque.   *)
(***************************************************************************)

\* Info::Info(): nothing is available and the object is writable.
Info_ctor ==
  [m_structinfo |-> [spacegroup |-> 999999], m_atomlist |-> <<>>, m_hkllist |-> <<>>,
   m_dyninfolist |-> <<>>, m_hkl_dlower |-> 1, m_hkl_dupper |-> -1,
   m_density |-> -1, m_numberdensity |-> -1, m_xsect_free |-> -1,
   m_xsect_absorption |-> -1, m_temp |-> -1, m_debyetemp |-> -1,
   m_xsectprovider |-> NULL, m_composition |-> <<>>, m_custom |-> <<>>,
   m_lock |-> FALSE]

\* bool isLocked() const
isLocked(info) == info.m_lock

\* void ensureNoLock(): throws on a locked instance.
ensureNoLock(info) == IF info.m_lock THEN "LogicError" ELSE "ok"

\* The setters that assign their argument to one member, and the member.
InfoSetters ==
  [setHKLList |-> "m_hkllist", setXSectFree |-> "m_xsect_free",
   setXSectAbsorption |-> "m_xsect_absorption", setTemperature |-> "m_temp",
   setGlobalDebyeTemperature |-> "m_debyetemp", setDensity |-> "m_density",
   setNumberDensity |-> "m_numberdensity", setXSectProvider |-> "m_xsectprovider",
   setComposition |-> "m_composition", setCustomData |-> "m_custom"]

\* The functions that append their argument to one member, and the member.
InfoAdders ==
  [addAtom |-> "m_atomlist", addHKL |-> "m_hkllist", addDynInfo |-> "m_dyninfolist"]

\* A setter that assigns before it looks at the lock.
Info_set_unguarded(info, setter, x) ==
  [err |-> ensureNoLock(info), info |-> [info EXCEPT ![InfoSetters[setter]] = x]]

\* void setX(x) { ensureNoLock(); m_x = x; }
Info_set(info, setter, x) ==
  IF ensureNoLock(info) # "ok" THEN [err |-> ensureNoLock(info), info |-> info]
  ELSE [err |-> "ok", info |-> [info EXCEPT ![InfoSetters[setter]] = x]]

\* void addX(x) { ensureNoLock(); m_xlist.push_back(x); }
Info_add(info, adder, x) ==
  IF ensureNoLock(info) # "ok" THEN [err |-> ensureNoLock(info), info |-> info]
  ELSE [err |-> "ok", info |-> [info EXCEPT ![InfoAdders[adder]] = Append(@, x)]]

\* void setStructInfo(const StructureInfo& si)
setStructInfo(info, si) ==
  IF ensureNoLock(info) # "ok" THEN [err |-> ensureNoLock(info), info |-> info]
  ELSE IF si.spacegroup = 999999 THEN [err |-> "LogicError", info |-> info]
  ELSE [err |-> "ok", info |-> [info EXCEPT !.m_structinfo = si]]

\* void enableHKLInfo(double dlower, double dupper)
enableHKLInfo(info, dlower, dupper) ==
  IF ensureNoLock(info) # "ok" THEN [err |-> ensureNoLock(info), info |-> info]
  ELSE [err |-> "ok", info |-> [info EXCEPT !.m_hkl_dlower = dlower,
                                            !.m_hkl_dupper = dupper]]

\* The list with x put before the first entry that is smaller.
RECURSIVE InsertDescending(_, _)
InsertDescending(list, x) ==
  IF list = <<>> THEN <<x>>
  ELSE IF Head(list) < x THEN <<x>> \o list
  ELSE <<Head(list)>> \o InsertDescending(Tail(list), x)

RECURSIVE SortDescending(_)
SortDescending(list) ==
  IF list = <<>> THEN <<>>
  ELSE InsertDescending(SortDescending(Tail(list)), Head(list))

\* void objectDone(): sorts the hkl list and the atom info list and locks
\* the instance.
objectDone(info) ==
  IF ensureNoLock(info) # "ok" THEN [err |-> ensureNoLock(info), info |-> info]
  ELSE [err |-> "ok", info |-> [info EXCEPT !.m_hkllist = SortDescending(@),
                                            !.m_atomlist = SortDescending(@),
                                            !.m_lock = TRUE]]

MaxInfoCalls == 3

InfoDoubles == {1, 2}

\* The arguments a factory passes to a setter.
InfoSetterArgs(setter) ==
  IF setter = "setHKLList" THEN {<<>>, <<1, 2>>}
  ELSE IF setter = "setXSectProvider" THEN {[t |-> "function"]}
  ELSE IF setter = "setComposition" THEN {<<"Al">>}
  ELSE IF setter = "setCustomData" THEN {<<"CUSTOM_A">>}
  ELSE InfoDoubles

InfoAdderArgs(adder) ==
  IF adder = "addDynInfo" THEN {"di"} ELSE InfoDoubles

InfoFunctions ==
  DOMAIN InfoSetters \cup DOMAIN InfoAdders
     \cup {"Info", "setStructInfo", "enableHKLInfo", "objectDone", "isLocked"}

\* A call of an Info member function has ended as r = [err, info].
InfoCall(op, arg, r) ==
  /\ last.op \in InfoFunctions
  /\ last.notes[1] < MaxInfoCalls
  /\ last' = Outcome(op, "info", arg, r.err, r.info, <<last.notes[1] + 1>>, m_impl)
  /\ UNCHANGED <<heap, m_impl>>

InfoSet == \E setter \in DOMAIN InfoSetters : \E x \in InfoSetterArgs(setter) :
             InfoCall(setter, x, Info_set(last.res, setter, x))

InfoAdd == \E adder \in DOMAIN InfoAdders : \E x \in InfoAdderArgs(adder) :
             InfoCall(adder, x, Info_add(last.res, adder, x))

InfoSetStructInfo == \E sg \in {225, 999999} :
             InfoCall("setStructInfo", sg, setStructInfo(last.res, [spacegroup |-> sg]))

InfoEnableHKLInfo == \E dlower \in InfoDoubles, dupper \in InfoDoubles :
             InfoCall("enableHKLInfo", <<dlower, dupper>>,
                      enableHKLInfo(last.res, dlower, dupper))

InfoObjectDone == InfoCall("objectDone", <<>>, objectDone(last.res))

InfoIsLocked == InfoCall("isLocked", isLocked(last.res), [err |-> "ok", info |-> last.res])

InitInfo ==
  /\ heap = <<>>
  /\ m_impl = [h \in Handles |-> 0]
  /\ last = Outcome("Info", "info", <<>>, "ok", Info_ctor, <<0>>, [h \in Handles |-> 0])

NextInfo ==
  \/ InfoSet
  \/ InfoAdd
  \/ InfoSetStructInfo
  \/ InfoEnableHKLInfo
  \/ InfoObjectDone
  \/ InfoIsLocked

SpecInfo == InitInfo /\ [][NextInfo]_vars

InfoMutators ==
  DOMAIN InfoSetters \cup DOMAIN InfoAdders \cup {"setStructInfo", "enableHKLInfo"}

\* C21: on a locked Info object every mutator (addAtom, addHKL, setHKLList,
\* enableHKLInfo, setStructInfo, setXSect*, setTemperature,
\* setGlobalDebyeTemperature, setDensity, setNumberDensity, setXSectProvider,
\* addDynInfo, setComposition, setCustomData) fails and leaves the object as
\* it was, isLocked() stays true, and no call makes the object writable
\* again.
C21_LockedForGood ==
  [][(last.op \in InfoFunctions /\ isLocked(last.res))
     => /\ last'.res = last.res
        /\ isLocked(last'.res)
        /\ (last'.op \in InfoMutators \cup {"objectDone"} => last'.err # "ok")
        /\ (last'.op = "isLocked" => last'.arg = TRUE)]_vars

\* setCustomData has failed on an object that objectDone had locked with
\* its lists filled.
C21_Witness ==
  /\ last.op = "setCustomData"
  /\ last.err = "LogicError"
  /\ isLocked(last.res)
  /\ last.res.m_custom = <<>>
  /\ last.res.m_atomlist # <<>>

(***************************************************************************)
(* The lazily built kernel of DI_ScatKnlDirect (NCInfo.hh, SpecSAB)        *)
(*                                                                         *)
(* The object is carried in last.res: its members m_sabdata (0: null, else *)
(* the identity of a SABData object) and m_mutex (the thread holding it),  *)
(* the position pc of each thread, and the history of the run: the calls   *)
(* each thread has made, the buildSAB invocations, the objects that        *)
(* ensureBuildThenReturnSAB has returned and the number of its calls that  *)
(* have completed.                                                         *)
(***************************************************************************)

Threads == {"t1", "t2", "t3"}

MaxSABCalls == 2

\* A DI_ScatKnlDirect object after construction, with every thread outside
\* its member functions.
DI_ScatKnlDirect_ctor ==
  [m_sabdata |-> 0, m_mutex |-> "free", pc |-> [t \in Threads |-> "idle"],
   ncalls |-> [t \in Threads |-> 0], nbuilds |-> 0, returned |-> {}, ndone |-> 0]

\* No lock is taken.
lock_guard_absent(d, t) == [acquired |-> TRUE, d |-> d]

\* std::lock_guard<std::mutex> on m_mutex: acquired when no thread holds it.
lock_guard(d, t) ==
  [acquired |-> d.m_mutex = "free", d |-> [d EXCEPT !.m_mutex = t]]

\* The end of the scope of the lock_guard.
lock_guard_release(d, t) ==
  IF d.m_mutex = t THEN [d EXCEPT !.m_mutex = "free"] ELSE d

\* virtual buildSAB() of the derived class: a new SABData object.
buildSAB(d) == [d EXCEPT !.nbuilds = @ + 1, !.m_sabdata = d.nbuilds + 1]

\* ensureBuildThenReturnSAB() of thread t, from its position pc[t]: the mutex
\* is taken, m_sabdata is tested, built when null, and returned.
ensureBuildThenReturnSAB(d, t) ==
  IF d.pc[t] = "ensure"
  THEN [lock_guard(d, t).d EXCEPT !.pc[t] = "ensure_locked"]
  ELSE IF d.pc[t] = "ensure_locked"
  THEN [d EXCEPT !.pc[t] = IF d.m_sabdata = 0 THEN "ensure_build" ELSE "ensure_return"]
  ELSE IF d.pc[t] = "ensure_build"
  THEN [buildSAB(d) EXCEPT !.pc[t] = "ensure_return"]
  ELSE [lock_guard_release(d, t) EXCEPT !.pc[t] = "idle",
                                        !.returned = @ \cup {d.m_sabdata},
                                        !.ndone = @ + 1]

\* hasBuiltSAB() of thread t, from its position pc[t].
hasBuiltSAB(d, t) ==
  IF d.pc[t] = "has"
  THEN [lock_guard(d, t).d EXCEPT !.pc[t] = "has_locked"]
  ELSE [lock_guard_release(d, t) EXCEPT !.pc[t] = "idle"]

\* A step of thread t on the object has left it as d.
SABStep(op, t, arg, d) ==
  last' = Outcome(op, t, arg, "ok", d, <<>>, m_impl) /\ UNCHANGED <<heap, m_impl>>

IsSAB == last.op \in {"DI_ScatKnlDirect", "call", "ensureBuildThenReturnSAB", "hasBuiltSAB"}

\* Thread t calls one of the two member functions.
SABCall(t, f) ==
  /\ IsSAB
  /\ last.res.pc[t] = "idle"
  /\ last.res.ncalls[t] < MaxSABCalls
  /\ SABStep("call", t, f, [last.res EXCEPT !.pc[t] = f, !.ncalls[t] = @ + 1])

\* Thread t takes its next step in ensureBuildThenReturnSAB; the step that
\* returns has the object returned as last.arg.
SABEnsure(t) ==
  /\ IsSAB
  /\ last.res.pc[t] \in {"ensure", "ensure_locked", "ensure_build", "ensure_return"}
  /\ last.res.pc[t] = "ensure" => lock_guard(last.res, t).acquired
  /\ SABStep("ensureBuildThenReturnSAB", t,
             IF last.res.pc[t] = "ensure_return" THEN last.res.m_sabdata ELSE NULL,
             ensureBuildThenReturnSAB(last.res, t))

\* Thread t takes its next step in hasBuiltSAB; the step that returns has
\* the value returned as last.arg.
SABHas(t) ==
  /\ IsSAB
  /\ last.res.pc[t] \in {"has", "has_locked"}
  /\ last.res.pc[t] = "has" => lock_guard(last.res, t).acquired
  /\ SABStep("hasBuiltSAB", t,
             IF last.res.pc[t] = "has_locked" THEN last.res.m_sabdata # 0 ELSE NULL,
             hasBuiltSAB(last.res, t))

InitSAB ==
  /\ heap = <<>>
  /\ m_impl = [h \in Handles |-> 0]
  /\ last = Outcome("DI_ScatKnlDirect", "t1", <<>>, "ok", DI_ScatKnlDirect_ctor, <<>>,
                    [h \in Handles |-> 0])

NextSAB ==
  \/ \E t \in Threads, f \in {"ensure", "has"} : SABCall(t, f)
  \/ \E t \in Threads : SABEnsure(t)
  \/ \E t \in Threads : SABHas(t)

SpecSAB == InitSAB /\ [][NextSAB]_vars

\* C22: under every interleaving of ensureBuildThenReturnSAB and hasBuiltSAB
\* calls of the threads, buildSAB is invoked at most once, every
\* ensureBuildThenReturnSAB call returns the one object built, and
\* hasBuiltSAB returns false as long as no ensureBuildThenReturnSAB call has
\* completed and true ever after.
C22_BuildOnce ==
  [][IsSAB
     => /\ last'.res.nbuilds <= 1
        /\ last'.res.returned \subseteq {1}
        /\ (last.res.m_sabdata # 0 => last'.res.m_sabdata = last.res.m_sabdata)
        /\ (last'.op = "hasBuiltSAB" /\ last.res.pc[last'.h] = "has_locked"
            => last'.arg = (last.res.ndone > 0))]_vars

\* Each of three threads has had the object returned by
\* ensureBuildThenReturnSAB, one build was made, and a hasBuiltSAB call has
\* just returned true.
C22_Witness ==
  /\ IsSAB
  /\ last.res.ndone >= 3
  /\ last.res.nbuilds = 1
  /\ \A t \in Threads : last.res.ncalls[t] >= 1
  /\ last.op = "hasBuiltSAB"
  /\ last.res.pc[last.h] = "idle"
  /\ last.arg = TRUE

(***************************************************************************)
(* Section markers of NCMAT inputs (SpecMarkers)                           *)
(***************************************************************************)

MaxMarkerLines == 3

MarkerLines ==
  { <<"@","C","E","L","L">>, <<"@","D","Y","N","I","N","F","O">>, <<"@","C","U","S","T","O","M","_","A">>, <<"@","H","E","A","D">>, <<"@","C","U","S","T","O","M">>, <<"@","C","U","S","T","O","M","_">>, <<"@","F","O","O">>, <<"@">>,
    <<" ","@","C","E","L","L">>, <<"@","C","E","L","L"," ","x">>, <<"2","2","5">> }

MarkerInputs ==
  { <<f>> \o b : f \in FirstLines,
                 b \in UNION { [1..n -> MarkerLines] : n \in 0..MaxMarkerLines } }

InitMarkers == \E lines \in MarkerInputs : OpenedOn(lines)

NextMarkers == ParseNCMAT

SpecMarkers == InitMarkers /\ [][NextMarkers]_vars

\* The line is a section marker line of valid syntax: its one token starts
\* with '@' at the beginning of the line and goes on with a name.
IsMarkerLine(line) ==
  /\ parseLine(line).err = "ok"
  /\ Len(parseLine(line).parts) = 1
  /\ parseLine(line).parts[1][1] = "@"
  /\ line[1] = "@"
  /\ Len(parseLine(line).parts[1]) > 1

\* The handler that the marker line asks for.
HandlerOfMarker(line) ==
  IF startswith(Tail(line), <<"C","U","S","T","O","M","_">>) THEN <<"C","U","S","T","O","M">> ELSE Tail(parseLine(line).parts[1])

\* The handler calls that the section protocol asks for from line i of the
\* input on, while the section handled by active is open: a data line goes
\* to the active handler, a marker line closes the active section and opens
\* the next, the end of the input closes the active section, and nothing
\* follows a line that is a marker of invalid syntax.
RECURSIVE ProtocolCalls(_, _, _)
ProtocolCalls(input, i, active) ==
  IF i > Len(input) THEN << <<active, TRUE>> >>
  ELSE IF parseLine(input[i]).parts = <<>> THEN ProtocolCalls(input, i + 1, active)
  ELSE IF IsMarkerLine(input[i])
  THEN << <<active, TRUE>> >> \o ProtocolCalls(input, i + 1, HandlerOfMarker(input[i]))
  ELSE IF parseLine(input[i]).parts[1][1] = "@" THEN <<>>
  ELSE << <<active, FALSE>> >> \o ProtocolCalls(input, i + 1, active)

IsPrefixOf(s, t) == Len(s) <= Len(t) /\ s = SubSeq(t, 1, Len(s))

\* The parser r stopped with an error at a marker line of valid syntax
\* that is not the last line (at the last line it may have stopped at the
\* end of the input).
FailedAtMarker(input, r) ==
  /\ r.err # "ok"
  /\ r.lineno >= 2
  /\ r.lineno < Len(input)
  /\ IsMarkerLine(input[r.lineno])

\* C23: the handler calls made are those of the section protocol, from the
\* pseudo-section HEAD on: at every marker line of valid syntax the active
\* section is closed with an empty token list before anything is done about
\* the new section, and at the end of the input the active section is
\* closed, so that in an accepted input every section entered is closed once;
\* and when the close at a marker line fails, the parser stops as it would
\* have at the end of an input ending before that line, whatever the marker.
C23_CloseProtocol ==
  last.op = "NCMATParser" /\ last.res.version # 0
  => /\ IsPrefixOf(last.res.calls, ProtocolCalls(last.arg, 2, <<"H","E","A","D">>))
     /\ last.err = "ok" => last.res.calls = ProtocolCalls(last.arg, 2, <<"H","E","A","D">>)
     /\ FailedAtMarker(last.arg, last.res)
        => /\ Len(last.res.calls)
                = Len(ProtocolCalls(SubSeq(last.arg, 1, last.res.lineno - 1), 2, <<"H","E","A","D">>))
           /\ last.res.calls[Len(last.res.calls)][2]
           /\ NCMATParser(SubSeq(last.arg, 1, last.res.lineno - 1), last.notes[1]).err # "ok"
              => last.res = [NCMATParser(SubSeq(last.arg, 1, last.res.lineno - 1),
                                         last.notes[1])
                             EXCEPT !.lineno = last.res.lineno, !.sawAnySection = TRUE]

\* The close of the @CELL section has failed at a second @CELL marker: no
\* call follows it and the data line after the marker is not read.
C23_Witness ==
  /\ last.op = "NCMATParser"
  /\ last.arg = <<<<"N","C","M","A","T"," ","v","3">>, <<"@","C","E","L","L">>, <<"@","C","E","L","L">>, <<"2","2","5">>>>
  /\ last.err = "BadInput"
  /\ last.notes[1].rejectAt = 1
  /\ last.res.lineno = 3
  /\ last.res.calls = << <<<<"H","E","A","D">>, TRUE>>, <<<<"C","E","L","L">>, TRUE>> >>

\* The section names that a marker may carry in the format version.
SectionNames(version) ==
  {<<"C","E","L","L">>, <<"A","T","O","M","P","O","S","I","T","I","O","N","S">>, <<"S","P","A","C","E","G","R","O","U","P">>, <<"D","E","B","Y","E","T","E","M","P","E","R","A","T","U","R","E">>}
    \cup (IF version >= 2 THEN {<<"D","Y","N","I","N","F","O">>, <<"D","E","N","S","I","T","Y">>} ELSE {})
    \cup (IF version >= 3 THEN {<<"A","T","O","M","D","B">>} ELSE {})

\* The first token of the line starts with '@'.
HasMarkerToken(line) ==
  parseLine(line).err = "ok" /\ parseLine(line).parts # <<>>
    /\ parseLine(line).parts[1][1] = "@"

\* The line is a marker that the format version admits: of valid syntax and
\* with one of the section names, or CUSTOM_ and a tag in version 3.
IsAdmittedMarker(line, version) ==
  /\ IsMarkerLine(line)
  /\ \/ Tail(line) \in SectionNames(version)
     \/ version >= 3 /\ startswith(Tail(line), <<"C","U","S","T","O","M","_">>) /\ Len(line) > 8

\* The custom sections that the lines from line i on add to cs, active
\* telling whether the most recent marker was an @CUSTOM_<tag> marker.
RECURSIVE CustomSectionsOf(_, _, _, _)
CustomSectionsOf(input, i, active, cs) ==
  IF i > Len(input) THEN cs
  ELSE IF parseLine(input[i]).parts = <<>> THEN CustomSectionsOf(input, i + 1, active, cs)
  ELSE IF HasMarkerToken(input[i])
  THEN (IF startswith(Tail(input[i]), <<"C","U","S","T","O","M","_">>)
        THEN CustomSectionsOf(input, i + 1, TRUE, Append(cs, <<substr(input[i], 9), <<>> >>))
        ELSE CustomSectionsOf(input, i + 1, FALSE, cs))
  ELSE IF active
  THEN CustomSectionsOf(input, i + 1, active,
                        [cs EXCEPT ![Len(cs)][2] = Append(@, parseLine(input[i]).parts)])
  ELSE CustomSectionsOf(input, i + 1, active, cs)

\* C24: an input with a line whose first token starts with '@' and which is
\* not a marker alone on its line, at column 0 and named CELL,
\* ATOMPOSITIONS, SPACEGROUP, DEBYETEMPERATURE, DYNINFO, DENSITY, ATOMDB or
\* CUSTOM_<tag> as the version admits, is rejected with BadInput (so for the
\* names HEAD, CUSTOM and CUSTOM_); and the custom sections of an accepted
\* input hold, each, the data lines that follow its @CUSTOM_<tag> marker up
\* to the next marker.
C24_MarkerNames ==
  last.op = "NCMATParser" /\ last.res.version # 0
  => /\ (\E i \in 2..Len(last.arg) :
           HasMarkerToken(last.arg[i]) /\ ~IsAdmittedMarker(last.arg[i], last.res.version))
        => last.err = "BadInput"
     /\ last.err = "ok"
        => last.res.customSections = CustomSectionsOf(last.arg, 2, FALSE, <<>>)

(***************************************************************************)
(* The first line of NCMAT inputs (SpecFirstLine)                          *)
(***************************************************************************)

FirstLineCandidates ==
  { <<"N","C","M","A","T"," ","v","1">>, <<"N","C","M","A","T"," ","v","2">>, <<"N","C","M","A","T"," ","v","3">>, <<"N","C","M","A","T">>, <<"N","C","M","A","T"," ","v","4">>, <<"N","C","M","A","T"," ","v","2"," ","x">>, <<" ","N","C","M","A","T"," ","v","2">>,
    <<"N","C","M","A","T","X"," ","v","2">>, <<"n","c","m","a","t"," ","v","2">>, <<"N","C","M","A","T","v","2">>, <<"F","O","O"," ","v","2">>, <<"N","C","M","A","T"," "," ","v","3"," ">>, <<"N","C","M","A","T"," ","v","1"," ","#"," ","c">>,
    <<"N","C","M","A","T"," ","v","1","#">>, <<"N","C","M","A","T"," ","v","2"," ","#"," ","c">>, <<"#","N","C","M","A","T"," ","v","2">>, <<>> }

FirstLineInputs ==
  {<<>>} \cup { <<f>> \o b : f \in FirstLineCandidates,
                             b \in UNION { [1..n -> {<<"@","C","E","L","L">>, <<"2","2","5">>, <<"@","H","E","A","D">>}] : n \in 0..2 } }

InitFirstLine == \E lines \in FirstLineInputs : OpenedOn(lines)

NextFirstLine == ParseNCMAT

SpecFirstLine == InitFirstLine /\ [][NextFirstLine]_vars

\* The parser r went on to the lines after the first: it read a second line
\* or, at the end of the input, closed the pseudo-section HEAD.
ProceededPastFirstLine(r) == r.lineno >= 2 \/ r.calls # <<>>

\* The version that a first line designates when it starts with NCMAT at
\* column 0 and its tokens are NCMAT and v1, v2 or v3, and 0 otherwise.
DesignatedVersion(input) ==
  IF input = <<>> THEN 0
  ELSE IF ~startswith(input[1], <<"N","C","M","A","T">>) THEN 0
  ELSE IF parseLine(input[1]).err # "ok" THEN 0
  ELSE IF parseLine(input[1]).parts = <<<<"N","C","M","A","T">>, <<"v","1">>>> THEN 1
  ELSE IF parseLine(input[1]).parts = <<<<"N","C","M","A","T">>, <<"v","2">>>> THEN 2
  ELSE IF parseLine(input[1]).parts = <<<<"N","C","M","A","T">>, <<"v","3">>>> THEN 3
  ELSE 0

\* C25: the parser goes on past the first line only if that line starts
\* with NCMAT at column 0 and its tokens are exactly NCMAT and one of v1, v2,
\* v3, and then the version is 1, 2 or 3 accordingly; an empty input, another
\* first token, a missing or unknown version token and extra tokens give
\* BadInput, and so does a first line with '#' in version 1.
C25_FirstLine ==
  last.op = "NCMATParser"
  => /\ ProceededPastFirstLine(last.res)
        => /\ DesignatedVersion(last.arg) \in 1..3
           /\ last.res.version = DesignatedVersion(last.arg)
           /\ ~(last.res.version = 1 /\ contains(last.arg[1], "#"))
     /\ (DesignatedVersion(last.arg) = 0
         \/ (DesignatedVersion(last.arg) = 1 /\ contains(last.arg[1], "#")))
        => last.err = "BadInput" /\ ~ProceededPastFirstLine(last.res)

(***************************************************************************)
(* Comments in NCMAT inputs (SpecComments)                                 *)
(***************************************************************************)

MaxCommentLines == 3

\* "# c", "@SPACEGROUP", "@SPACEGROUP # c", "225", "225 # c", "225#c",
\* " # c", and a comment holding a form feed.
CommentLines ==
  { <<"#"," ","c">>, <<"@","S","P","A","C","E","G","R","O","U","P">>, <<"@","S","P","A","C","E","G","R","O","U","P"," ","#"," ","c">>, <<"2","2","5">>, <<"2","2","5"," ","#"," ","c">>, <<"2","2","5","#","c">>, <<" ","#"," ","c">>,
    <<"#", "\f">> }

CommentInputs ==
  { <<f>> \o b : f \in FirstLines,
                 b \in UNION { [1..n -> CommentLines] : n \in 0..MaxCommentLines } }

InitComments == \E lines \in CommentInputs : OpenedOn(lines)

NextComments == ParseNCMAT

SpecComments == InitComments /\ [][NextComments]_vars

\* The line up to its first '#'.
RECURSIVE StripComment(_)
StripComment(line) ==
  IF line = <<>> \/ Head(line) = "#" THEN <<>>
  ELSE <<Head(line)>> \o StripComment(Tail(line))

StripComments(input) ==
  [i \in 1..Len(input) |-> IF i = 1 THEN input[i] ELSE StripComment(input[i])]

\* The comment of the line holds no control character other than a tab.
IsCleanComment(line) ==
  \A i \in 1..Len(line) :
     line[i] \in ControlChars => \A j \in 1..i : line[j] # "#"

\* Line i of a version 1 input may hold a comment: no earlier line and not
\* the line itself begins with a token that starts with '@', and the line
\* starts with '#'.
V1CommentAllowed(input, i) ==
  /\ \A j \in 2..i : ~HasMarkerToken(input[j])
  /\ input[i][1] = "#"

\* The lines after the first that hold a '#'.
CommentedLines(input) == {i \in 2..Len(input) : contains(input[i], "#")}

\* The parser ends as it does on the input without its comments.
CommentsIgnored ==
  last.res = NCMATParser(StripComments(last.arg), last.notes[1])

MaxFractionLines == 3

FractionLines ==
  { <<"@","A","T","O","M","P","O","S","I","T","I","O","N","S">>, <<"@","D","Y","N","I","N","F","O">>, <<"A","l"," ","1","/","2"," ","0"," ","0">>, <<"A","l"," ","0"," ","0"," ","1","/","0">>, <<"A","l"," ","1","/","2","/","3"," ","0"," ","0">>,
    <<"A","l"," ","/","2"," ","0"," ","0">>, <<"A","l"," ","0"," ","1","/"," ","0">>, <<"A","l"," ","i","n","f","/","2"," ","0"," ","0">>, <<"A","l"," ","0"," ","x","/","2"," ","-","1","/","4">>, <<"f","r","a","c","t","i","o","n"," ","1","/","2">>,
    <<"f","r","a","c","t","i","o","n"," ","1","/","0">> }

FractionInputs ==
  { <<f>> \o b : f \in FirstLines,
                 b \in UNION { [1..n -> FractionLines] : n \in 0..MaxFractionLines } }

InitFractions == \E lines \in FractionInputs : OpenedOn(lines)

NextFractions == ParseNCMAT

SpecFractions == InitFractions /\ [][NextFractions]_vars

\* The number of '/' in the token.
RECURSIVE SlashCount(_)
SlashCount(tok) ==
  IF tok = <<>> THEN 0
  ELSE (IF Head(tok) = "/" THEN 1 ELSE 0) + SlashCount(Tail(tok))

Numerator(tok) == SubSeq(tok, 1, IndexOf(tok, "/") - 1)

Denominator(tok) == SubSeq(tok, IndexOf(tok, "/") + 1, Len(tok))

IsFiniteNumber(s) == s # <<>> /\ str2dbl(s).ok /\ str2dbl(s).v.k = "num"

\* The token is a fraction of two finite numbers, the second not zero.
IsFraction(tok) ==
  /\ SlashCount(tok) = 1
  /\ IsFiniteNumber(Numerator(tok)) /\ IsFiniteNumber(Denominator(tok))
  /\ str2dbl(Denominator(tok)).v # Norm(0, 0)

\* The value the token stands for: that of a fraction, or of a number.
ValueOfToken(tok) ==
  IF SlashCount(tok) = 0 THEN str2dbl(tok).v
  ELSE NumDiv(str2dbl(Numerator(tok)).v, str2dbl(Denominator(tok)).v)

\* The section that line i of the input lies in: the name in the last marker
\* line before it.
RECURSIVE SectionAt(_, _)
SectionAt(input, i) ==
  IF i <= 2 THEN <<"H","E","A","D">>
  ELSE IF HasMarkerToken(input[i - 1]) THEN Tail(parseLine(input[i - 1]).parts[1])
  ELSE SectionAt(input, i - 1)

\* The tokens of line i that the parser reads as numbers that may be
\* fractions: the coordinates of a position line, the argument of a
\* fraction line.
FractionTokens(input, i) ==
  LET parts == parseLine(input[i]).parts
  IN IF HasMarkerToken(input[i]) THEN <<>>
     ELSE IF SectionAt(input, i) = <<"A","T","O","M","P","O","S","I","T","I","O","N","S">> /\ Len(parts) = 4 THEN Tail(parts)
     ELSE IF SectionAt(input, i) = <<"D","Y","N","I","N","F","O">> /\ Len(parts) = 2 /\ parts[1] = <<"f","r","a","c","t","i","o","n">>
     THEN Tail(parts)
     ELSE <<>>

\* The lines with a '/' in one of these tokens.
FractionSites(input) ==
  { i \in 3..Len(input) : \E k \in DOMAIN FractionTokens(input, i) :
                             SlashCount(FractionTokens(input, i)[k]) > 0 }

\* The data lines of the section of line i up to line i.
DataLinesUpTo(input, i) ==
  { j \in 3..i : ~HasMarkerToken(input[j]) /\ \A k \in j..i : ~HasMarkerToken(input[k]) }

\* What the parser r has stored for line i.
StoredFor(input, i, r) ==
  IF SectionAt(input, i) = <<"A","T","O","M","P","O","S","I","T","I","O","N","S">>
  THEN r.atompos[Cardinality(DataLinesUpTo(input, i))][2]
  ELSE <<r.dyninfos[Cardinality({j \in 2..i : input[j] = <<"@","D","Y","N","I","N","F","O">>})].fraction>>

\* C27: a position coordinate or DYNINFO fraction with a '/' is rejected with
\* BadInput in a version 1 input; in a version 2 or 3 input the parser
\* passes its line only if the token has one '/' between two finite numbers,
\* the second not zero, and it then stores the first divided by the second.
C27_Fractions ==
  last.op = "NCMATParser" /\ last.res.version # 0
  => \A i \in FractionSites(last.arg) :
        IF last.res.version = 1
        THEN (last.err = "ok" \/ last.res.lineno >= i)
             => last.err = "BadInput" /\ last.res.lineno = i
        ELSE (last.err = "ok" \/ last.res.lineno > i)
             => /\ \A k \in DOMAIN FractionTokens(last.arg, i) :
                      SlashCount(FractionTokens(last.arg, i)[k]) > 0
                      => IsFraction(FractionTokens(last.arg, i)[k])
                /\ StoredFor(last.arg, i, last.res)
                     = [k \in DOMAIN FractionTokens(last.arg, i) |->
                          ValueOfToken(FractionTokens(last.arg, i)[k])]

\* The position 1/2 0 0 is stored as 0.5 0 0 from a version 2 input, and a
\* second position after it with its fraction.
C27_Witness ==
  /\ last.op = "NCMATParser"
  /\ last.err = "ok"
  /\ last.arg = <<<<"N","C","M","A","T"," ","v","2">>, <<"@","A","T","O","M","P","O","S","I","T","I","O","N","S">>, <<"A","l"," ","1","/","2"," ","0"," ","0">>, <<"A","l"," ","1","/","2"," ","0"," ","0">>>>
  /\ last.res.atompos[2][2] = <<Norm(5, -1), Norm(0, 0), Norm(0, 0)>>

(***************************************************************************)
(* Debye temperatures in NCMAT inputs (SpecDebye)                          *)
(***************************************************************************)

MaxDebyeLines == 4

FirstDebyeLines == {<<"N","C","M","A","T"," ","v","1">>, <<"N","C","M","A","T"," ","v","3">>}

DebyeLines ==
  { <<"@","D","E","B","Y","E","T","E","M","P","E","R","A","T","U","R","E">>, <<"@","S","P","A","C","E","G","R","O","U","P">>, <<"3","0","0">>, <<"0">>, <<"n","a","n">>, <<"A","l"," ","3","0","0">>, <<"A","l"," ","3","0","0"," ","1">> }

DebyeInputs ==
  { <<f>> \o b : f \in FirstDebyeLines,
                 b \in UNION { [1..n -> DebyeLines] : n \in 0..MaxDebyeLines } }

InitDebye == \E lines \in DebyeInputs : OpenedOn(lines)

NextDebye == ParseNCMAT

SpecDebye == InitDebye /\ [][NextDebye]_vars

\* The data lines of the @DEBYETEMPERATURE section before line i (which is a
\* line of the section, or the line that ends it).
DebyeLinesBefore(input, i) ==
  { j \in 3..(i - 1) : /\ ~HasMarkerToken(input[j])
                       /\ \A k \in j..(i - 1) : ~HasMarkerToken(input[k])
                       /\ SectionAt(input, j) = <<"D","E","B","Y","E","T","E","M","P","E","R","A","T","U","R","E">> }

\* Line j gives a global value that is not zero.
GivesGlobal(input, j) ==
  /\ Len(parseLine(input[j]).parts) = 1
  /\ str2dbl(parseLine(input[j]).parts[1]).ok
  /\ str2dbl(parseLine(input[j]).parts[1]).v # Norm(0, 0)

\* Line j gives the value of an element.
GivesPerElement(input, j) == Len(parseLine(input[j]).parts) = 2

\* The parser has come to line i of the input, the lines before it accepted.
ReachedLine(r, i) == r.err = "ok" \/ r.lineno >= i

\* The lines at which an @DEBYETEMPERATURE section is closed: a marker after
\* it, or the end of the input (the line after the last).
DebyeCloses(input) ==
  { i \in 3..(Len(input) + 1) :
      /\ SectionAt(input, i) = <<"D","E","B","Y","E","T","E","M","P","E","R","A","T","U","R","E">>
      /\ i <= Len(input) => HasMarkerToken(input[i]) }

\* C28: the parser never holds a global Debye temperature that is not zero
\* together with per element values; in an @DEBYETEMPERATURE section a line
\* after a global value that is not zero and a line of one token after a per
\* element line are rejected with BadInput, and so is the close of a section
\* that has given neither.
C28_DebyeExclusive ==
  last.op = "NCMATParser" /\ last.res.version # 0
  => /\ ~(last.res.debyetemp_global # Norm(0, 0) /\ last.res.debyetemp_perelement # <<>>)
     /\ \A i \in 3..Len(last.arg) :
          /\ SectionAt(last.arg, i) = <<"D","E","B","Y","E","T","E","M","P","E","R","A","T","U","R","E">>
          /\ ~HasMarkerToken(last.arg[i])
          /\ ReachedLine(last.res, i)
          /\ \/ \E j \in DebyeLinesBefore(last.arg, i) : GivesGlobal(last.arg, j)
             \/ /\ Len(parseLine(last.arg[i]).parts) = 1
                /\ \E j \in DebyeLinesBefore(last.arg, i) : GivesPerElement(last.arg, j)
          => last.err = "BadInput" /\ last.res.lineno = i
     /\ \A i \in DebyeCloses(last.arg) :
          /\ ReachedLine(last.res, IF i <= Len(last.arg) THEN i ELSE i - 1)
          /\ \A j \in DebyeLinesBefore(last.arg, i) :
                ~GivesGlobal(last.arg, j) /\ ~GivesPerElement(last.arg, j)
          => last.err = "BadInput"
             /\ last.res.lineno <= (IF i <= Len(last.arg) THEN i ELSE i - 1)

\* A global value after a per element line has been rejected, the per
\* element value kept and no global value set.
C28_Witness ==
  /\ last.op = "NCMATParser"
  /\ last.arg = <<<<"N","C","M","A","T"," ","v","1">>, <<"@","D","E","B","Y","E","T","E","M","P","E","R","A","T","U","R","E">>, <<"A","l"," ","3","0","0">>, <<"3","0","0">>>>
  /\ last.err = "BadInput" /\ last.res.lineno = 4
  /\ last.res.debyetemp_perelement = <<<<<<"A","l">>, Norm(3, 2)>>>>
  /\ last.res.debyetemp_global = Norm(0, 0)

(***************************************************************************)
(* @DYNINFO sections of NCMAT inputs (SpecDynInfo)                         *)
(***************************************************************************)

MaxDynInfoLines == 4

DynInfoLines ==
  { <<"@","D","Y","N","I","N","F","O">>, <<"f","r","a","c","t","i","o","n"," ","1">>, <<"f","r","a","c","t","i","o","n"," ","0",".","5">>, <<"e","l","e","m","e","n","t"," ","A","l">>, <<"t","y","p","e"," ","s","t","e","r","i","l","e">>,
    <<"t","e","m","p","e","r","a","t","u","r","e"," ","3","0","0">>, <<"s","a","b"," ","1">>, <<"2">> }

DynInfoInputs ==
  { <<<<"N","C","M","A","T"," ","v","2">>>> \o b :
      b \in UNION { [1..n -> DynInfoLines] : n \in 0..MaxDynInfoLines } }

InitDynInfo == \E lines \in DynInfoInputs : OpenedOn(lines)

NextDynInfo == ParseNCMAT

SpecDynInfo == InitDynInfo /\ [][NextDynInfo]_vars

\* The @DYNINFO marker lines of the input.
DynInfoMarkers(input) == { s \in 2..Len(input) : input[s] = <<"@","D","Y","N","I","N","F","O">> }

\* The last line of the section that the marker line s opens.
RECURSIVE SectionEnd(_, _)
SectionEnd(input, s) ==
  IF s = Len(input) \/ HasMarkerToken(input[s + 1]) THEN s
  ELSE SectionEnd(input, s + 1)

\* The entry that the section opened by the marker line s makes when it is
\* the only section of an input.
DynInfoOfSection(input, s) ==
  NCMATParser(<<input[1], input[s]>> \o SubSeq(input, s + 1, SectionEnd(input, s)),
              [rejectAt |-> 0, ub |-> "ok"]).dyninfos[1]

\* The last line the parser has handled.
LastLineHandled(input, r) == IF r.err = "ok" THEN Len(input) ELSE r.lineno

\* The token is a keyword of an @DYNINFO line.
IsDynInfoKeyword(tok) ==
  Ord(tok[1]) >= Ord("a") /\ contains_only(tok, <<"a","b","c","d","e","f","g","h","i","j","k","l","m","n","o","p","q","r","s","t","u","v","w","x","y","z","_">>)

\* Line i of an @DYNINFO section starts with a keyword that an earlier line
\* of the section starts with.
RepeatsKeyword(input, i) ==
  /\ SectionAt(input, i) = <<"D","Y","N","I","N","F","O">>
  /\ ~HasMarkerToken(input[i])
  /\ IsDynInfoKeyword(parseLine(input[i]).parts[1])
  /\ \E j \in DataLinesUpTo(input, i) \ {i} :
        parseLine(input[j]).parts[1] = parseLine(input[i]).parts[1]

\* C29: dyninfos holds one entry for each @DYNINFO section whose first data
\* line the parser has handled, in the order of the sections; the entry of a
\* section whose lines have all been handled is what that section alone
\* makes, whatever the later lines are, and no accumulator or vector field
\* is left active at the end; a section without data line is rejected with
\* BadInput at its close, and so is a line whose keyword an earlier line of
\* its section has.
C29_DynInfoSections ==
  last.op = "NCMATParser" /\ last.res.version # 0
  => /\ Len(last.res.dyninfos)
          = Cardinality({ s \in DynInfoMarkers(last.arg) :
                            /\ s + 1 <= LastLineHandled(last.arg, last.res)
                            /\ ~HasMarkerToken(last.arg[s + 1]) })
     /\ last.err = "ok"
        => ~last.res.m_active_dyninfo /\ last.res.m_dyninfo_active_vector_field = NULL
     /\ \A s \in DynInfoMarkers(last.arg) :
          /\ SectionEnd(last.arg, s) > s
          /\ \/ last.err = "ok"
             \/ SectionEnd(last.arg, s) < LastLineHandled(last.arg, last.res)
          => last.res.dyninfos[Cardinality({ t \in DynInfoMarkers(last.arg) : t <= s })]
               = DynInfoOfSection(last.arg, s)
     /\ \A s \in DynInfoMarkers(last.arg) :
          /\ SectionEnd(last.arg, s) = s
          /\ ReachedLine(last.res, IF s < Len(last.arg) THEN s + 1 ELSE s)
          => /\ last.err = "BadInput"
             /\ last.res.lineno <= (IF s < Len(last.arg) THEN s + 1 ELSE s)
     /\ \A i \in 3..Len(last.arg) :
          RepeatsKeyword(last.arg, i) /\ ReachedLine(last.res, i)
          => last.err = "BadInput" /\ last.res.lineno = i

\* Two sections have been closed, each with its own entry: the second with
\* the fraction 0.5, the first left with the fraction 1.
C29_Witness ==
  /\ last.op = "NCMATParser"
  /\ last.err = "ok"
  /\ last.arg = <<<<"N","C","M","A","T"," ","v","2">>, <<"@","D","Y","N","I","N","F","O">>, <<"f","r","a","c","t","i","o","n"," ","1">>, <<"@","D","Y","N","I","N","F","O">>, <<"f","r","a","c","t","i","o","n"," ","0",".","5">>>>
  /\ Len(last.res.dyninfos) = 2
  /\ last.res.dyninfos[1].fraction = Norm(1, 0)
  /\ last.res.dyninfos[2].fraction = Norm(5, -1)

(***************************************************************************)
(* Repeated entries of @DYNINFO vector fields (SpecVector)                 *)
(***************************************************************************)

MaxVectorTokens == 3

VectorTokens ==
  { <<"0">>, <<"0",".","1">>, <<"0",".","2">>, <<"0",".","2","r","5">>, <<"0",".","3">>, <<"1","r","2">>, <<"1","r","1">>, <<"1","r","0">>, <<"1","r","-","3">>, <<"1","r","2",".","5">>,
    <<"1","r">>, <<"1","r","2","r","3">> }

\* The tokens after the keyword, each with a blank before it.
RECURSIVE JoinTokens(_, _)
JoinTokens(line, toks) ==
  IF toks = <<>> THEN line
  ELSE JoinTokens(line \o <<" ">> \o Head(toks), Tail(toks))

\* An alphagrid line of up to MaxVectorTokens tokens, or the line
\* "alphagrid 0 0.1 0.2 0.2r5 0.3", with or without a line that continues it.
VectorInputs ==
  { <<<<"N","C","M","A","T"," ","v","2">>, <<"@","D","Y","N","I","N","F","O">>, l>> \o c :
      l \in { JoinTokens(<<"a","l","p","h","a","g","r","i","d">>, toks) :
                toks \in UNION { [1..n -> VectorTokens] : n \in 1..MaxVectorTokens } }
            \cup { <<"a","l","p","h","a","g","r","i","d"," ","0"," ","0",".","1"," ","0",".","2"," ","0",".","2","r","5"," ","0",".","3">> },
      c \in { <<>>, <<<<"0",".","3","r","2"," ","0",".","4">>>> } }

InitVector == \E lines \in VectorInputs : OpenedOn(lines)

NextVector == ParseNCMAT

SpecVector == InitVector /\ [][NextVector]_vars

\* The repeat count N of the token VrN (0 when it is not an integer of at
\* least 2), and 1 for a token without 'r'.
RepeatCount(tok) ==
  IF ~contains(tok, "r") THEN 1
  ELSE LET n == SubSeq(tok, IndexOf(tok, "r") + 1, Len(tok))
       IN IF str2int(n).ok /\ str2int(n).v >= 2 THEN str2int(n).v ELSE 0

\* The value V of the token VrN or V.
RepeatValue(tok) ==
  str2dbl(IF contains(tok, "r") THEN SubSeq(tok, 1, IndexOf(tok, "r") - 1) ELSE tok).v

\* The values that the first n of the tokens stand for.
RECURSIVE Expand(_, _)
Expand(toks, n) ==
  IF n = 0 THEN <<>>
  ELSE Expand(toks, n - 1) \o [i \in 1..RepeatCount(toks[n]) |-> RepeatValue(toks[n])]

\* The tokens of the vector in lines 3..n of the input.
VectorTokensOf(input, n) ==
  Tail(parseLine(input[3]).parts)
    \o (IF n >= 4 THEN parseLine(input[4]).parts ELSE <<>>)

\* The tokens before the first of the tokens with a repeat count that is
\* not valid (all of them if there is none).
RECURSIVE ValidPrefix(_)
ValidPrefix(toks) ==
  IF toks = <<>> \/ RepeatCount(Head(toks)) = 0 THEN 0
  ELSE 1 + ValidPrefix(Tail(toks))

\* C30: a token VrN with an integer N of at least 2 appends N times the value
\* V to the vector field, a token without 'r' appends its value once, and a
\* token VrN with another N is rejected with BadInput, the values of the
\* tokens before it appended; the line "alphagrid 0 0.1 0.2 0.2r5 0.3"
\* makes the nine values 0, 0.1, 0.2, 0.2, 0.2, 0.2, 0.2, 0.2, 0.3.
C30_RepeatNotation ==
  last.op = "NCMATParser" /\ last.res.version # 0
  => LET input == last.arg
         all == VectorTokensOf(input, Len(input))
         first == VectorTokensOf(input, 3)
         field == last.res.dyninfos[1].fields[<<"a","l","p","h","a","g","r","i","d">>]
     IN /\ field = Expand(all, ValidPrefix(all))
        /\ IF ValidPrefix(all) < Len(first)
           THEN last.err = "BadInput" /\ last.res.lineno = 3
           ELSE IF ValidPrefix(all) < Len(all)
           THEN last.err = "BadInput" /\ last.res.lineno = 4
           ELSE last.err = "ok" \/ (last.err = "BadInput" /\ last.notes[1].rejectAt = 1)
        /\ input[3] = <<"a","l","p","h","a","g","r","i","d"," ","0"," ","0",".","1"," ","0",".","2"," ","0",".","2","r","5"," ","0",".","3">> /\ Len(input) = 3
           => field = <<Norm(0, 0), Norm(1, -1), Norm(2, -1), Norm(2, -1), Norm(2, -1),
                        Norm(2, -1), Norm(2, -1), Norm(2, -1), Norm(3, -1)>>

\* The line of the example has been accepted with its nine values.
C30_Witness ==
  /\ last.op = "NCMATParser"
  /\ last.err = "ok"
  /\ last.arg = <<<<"N","C","M","A","T"," ","v","2">>, <<"@","D","Y","N","I","N","F","O">>, <<"a","l","p","h","a","g","r","i","d"," ","0"," ","0",".","1"," ","0",".","2"," ","0",".","2","r","5"," ","0",".","3">>>>
  /\ Len(last.res.dyninfos[1].fields[<<"a","l","p","h","a","g","r","i","d">>]) = 9
  /\ last.res.dyninfos[1].fields[<<"a","l","p","h","a","g","r","i","d">>][8] = Norm(2, -1)

(***************************************************************************)
(* Negative numbers in @DYNINFO vector fields (SpecSign)                   *)
(***************************************************************************)

MaxSignLines == 4

SignLines ==
  { <<"@","D","Y","N","I","N","F","O">>, <<"b","e","t","a","g","r","i","d"," ","-","1"," ","0">>, <<"a","l","p","h","a","g","r","i","d"," ","1">>, <<"a","l","p","h","a","g","r","i","d"," ","-","1">>, <<"t","e","m","p","e","r","a","t","u","r","e"," ","-","3","0","0">>,
    <<"e","g","r","i","d"," ","2"," ","-","0">>, <<"-","2"," ","3">> }

SignInputs ==
  { <<<<"N","C","M","A","T"," ","v","2">>>> \o b :
      b \in UNION { [1..n -> SignLines] : n \in 0..MaxSignLines } }

InitSign == \E lines \in SignInputs : OpenedOn(lines)

NextSign == ParseNCMAT

SpecSign == InitSign /\ [][NextSign]_vars

\* Line i is a data line of an @DYNINFO section that starts with a keyword.
IsKeywordLine(input, i) ==
  /\ SectionAt(input, i) = <<"D","Y","N","I","N","F","O">>
  /\ ~HasMarkerToken(input[i])
  /\ IsDynInfoKeyword(parseLine(input[i]).parts[1])

\* The keyword line that the data line i of an @DYNINFO section belongs to:
\* itself, or the last keyword line of its section before it (0 if none).
RECURSIVE KeywordLineOf(_, _)
KeywordLineOf(input, i) ==
  IF i <= 2 \/ HasMarkerToken(input[i]) THEN 0
  ELSE IF IsKeywordLine(input, i) THEN i
  ELSE KeywordLineOf(input, i - 1)

\* The field that the numbers of line i go to: that of its keyword line, if
\* the line is that line or the keyword is one of a long vector (NULL if
\* there is none).
FieldFilled(input, i) ==
  LET k == KeywordLineOf(input, i)
  IN IF k = 0 THEN NULL
     ELSE IF k # i /\ parseLine(input[k]).parts[1] \notin DynInfoLongVectorKeywords
     THEN NULL
     ELSE parseLine(input[k]).parts[1]

\* The numbers of line i.
NumbersOfLine(input, i) ==
  LET toks == IF IsKeywordLine(input, i) THEN Tail(parseLine(input[i]).parts)
              ELSE parseLine(input[i]).parts
  IN [n \in DOMAIN toks |-> str2dbl(toks[n]).v]

\* The lines of the section from line k on that fill the field of the
\* keyword line k.
LinesOfField(input, k) ==
  { i \in k..SectionEnd(input, k) : KeywordLineOf(input, i) = k }

\* The numbers of the lines k..e that belong to the keyword line k, in order.
RECURSIVE NumbersOfField(_, _, _)
NumbersOfField(input, k, e) ==
  IF e < k THEN <<>>
  ELSE NumbersOfField(input, k, e - 1)
         \o (IF e \in LinesOfField(input, k) THEN NumbersOfLine(input, e) ELSE <<>>)

\* The data lines of @DYNINFO sections whose numbers go to a field.
FillingLines(input) ==
  { i \in 3..Len(input) : SectionAt(input, i) = <<"D","Y","N","I","N","F","O">> /\ ~HasMarkerToken(input[i])
                            /\ FieldFilled(input, i) # NULL }

\* C31: a line with a negative number for a field other than betagrid is
\* rejected with BadInput, be it the line of the keyword or a line that
\* continues a long vector, and a line with only such numbers as its field
\* admits is accepted; the field of a keyword line holds the numbers of that
\* line and of the lines that continue it, in order.
C31_SignPolicy ==
  last.op = "NCMATParser" /\ last.res.version # 0
  => /\ \A i \in FillingLines(last.arg) :
          ReachedLine(last.res, i)
          /\ ~RepeatsKeyword(last.arg, i)
          => IF /\ FieldFilled(last.arg, i) # <<"b","e","t","a","g","r","i","d">>
                /\ \E n \in DOMAIN NumbersOfLine(last.arg, i) :
                      NumLess(NumbersOfLine(last.arg, i)[n], Norm(0, 0))
             THEN last.err = "BadInput" /\ last.res.lineno = i
             ELSE last.err # "ok"
                  => \/ last.res.lineno > i
                     \/ i = Len(last.arg) /\ last.notes[1].rejectAt = last.res.nval
     /\ \A k \in FillingLines(last.arg) :
          /\ KeywordLineOf(last.arg, k) = k
          /\ \/ last.err = "ok"
             \/ SectionEnd(last.arg, k) < LastLineHandled(last.arg, last.res)
          => last.res.dyninfos[Cardinality({ t \in DynInfoMarkers(last.arg) : t <= k })]
                 .fields[parseLine(last.arg[k]).parts[1]]
               = NumbersOfField(last.arg, k, SectionEnd(last.arg, k))

\* Negative numbers have been accepted on the line of betagrid and on the
\* line that continues it, and the alphagrid after them holds its own.
C31_Witness ==
  /\ last.op = "NCMATParser"
  /\ last.err = "ok"
  /\ last.arg = <<<<"N","C","M","A","T"," ","v","2">>, <<"@","D","Y","N","I","N","F","O">>, <<"b","e","t","a","g","r","i","d"," ","-","1"," ","0">>, <<"-","2"," ","3">>, <<"a","l","p","h","a","g","r","i","d"," ","1">>>>
  /\ last.res.dyninfos[1].fields[<<"b","e","t","a","g","r","i","d">>] = <<Norm(-1, 0), Norm(0, 0), Norm(-2, 0), Norm(3, 0)>>
  /\ last.res.dyninfos[1].fields[<<"a","l","p","h","a","g","r","i","d">>] = <<Norm(1, 0)>>

(***************************************************************************)
(* @DENSITY sections of NCMAT inputs (SpecDensity)                         *)
(***************************************************************************)

MaxDensityLines == 3

DensityLines ==
  { <<"@","D","E","N","S","I","T","Y">>, <<"1"," ","k","g","_","p","e","r","_","m","3">>, <<"2"," ","g","_","p","e","r","_","c","m","3">>, <<"3"," ","a","t","o","m","s","_","p","e","r","_","a","a","3">>, <<"1"," ","k","g">>, <<"1">>,
    <<"1"," ","k","g","_","p","e","r","_","m","3"," ","x">> }

DensityInputs ==
  { <<f>> \o b : f \in {<<"N","C","M","A","T"," ","v","2">>, <<"N","C","M","A","T"," ","v","3">>},
                 b \in UNION { [1..n -> DensityLines] : n \in 0..MaxDensityLines } }

InitDensity == \E lines \in DensityInputs : OpenedOn(lines)

NextDensity == ParseNCMAT

SpecDensity == InitDensity /\ [][NextDensity]_vars

DensityUnits == { <<"a","t","o","m","s","_","p","e","r","_","a","a","3">>, <<"k","g","_","p","e","r","_","m","3">>, <<"g","_","p","e","r","_","c","m","3">> }

\* The data lines of @DENSITY sections.
DensityDataLines(input) ==
  { i \in 3..Len(input) : SectionAt(input, i) = <<"D","E","N","S","I","T","Y">> /\ ~HasMarkerToken(input[i]) }

\* The line is of the form value unit.
IsDensityLine(line) ==
  /\ Len(parseLine(line).parts) = 2
  /\ str2dbl(parseLine(line).parts[1]).ok
  /\ parseLine(line).parts[2] \in DensityUnits

\* The density and the unit that a line of the form value unit stands for.
DensityOfLine(line) ==
  LET v == str2dbl(parseLine(line).parts[1]).v
      u == parseLine(line).parts[2]
  IN IF u = <<"a","t","o","m","s","_","p","e","r","_","a","a","3">> THEN <<v, "ATOMS_PER_AA3">>
     ELSE IF u = <<"k","g","_","p","e","r","_","m","3">> THEN <<v, "KG_PER_M3">>
     ELSE <<NumMul(v, Norm(1000, 0)), "KG_PER_M3">>

\* C32: in an @DENSITY section a second data line is rejected with BadInput,
\* and so is a first one that is not of the form value unit with one of the
\* three units; a first line of that form is accepted and its value stored,
\* a value in g_per_cm3 as 1000 times the value in kg/m3.
C32_Density ==
  last.op = "NCMATParser" /\ last.res.version # 0
  => \A i \in DensityDataLines(last.arg) :
        ReachedLine(last.res, i)
        => IF DataLinesUpTo(last.arg, i) # {i} \/ ~IsDensityLine(last.arg[i])
           THEN last.err = "BadInput" /\ last.res.lineno = i
           ELSE <<last.res.density, last.res.density_unit>> = DensityOfLine(last.arg[i])

(***************************************************************************)
(* Unit suffixes of the parameters of type double (SpecSuffix)             *)
(***************************************************************************)

MaxSuffixPars == 1

SuffixParNames ==
  { <<"m","o","s">>, <<"d","i","r","t","o","l">>, <<"d","c","u","t","o","f","f">>, <<"d","c","u","t","o","f","f","u","p">>, <<"t","e","m","p">>, <<"p","a","c","k","f","a","c","t">>, <<"m","o","s","p","r","e","c">>, <<"s","c","c","u","t","o","f","f">> }

AngleSuffixes == { <<"r","a","d">>, <<"d","e","g">>, <<"a","r","c","m","i","n">>, <<"a","r","c","s","e","c">> }

LengthSuffixes == { <<"A","a">>, <<"n","m">>, <<"m","m">>, <<"c","m">>, <<"m">> }

TempSuffixes == { <<"K">>, <<"C">>, <<"F">> }

\* The tabulated suffixes, two that are not (one of them a tabulated suffix
\* in other letter case), and none.
Suffixes ==
  AngleSuffixes \cup LengthSuffixes \cup TempSuffixes \cup { <<"x","x">>, <<"D","e","g">>, <<>> }

\* The suffixes tabulated for the unit class of the parameter.
SuffixesFor(name) ==
  IF name \in { <<"m","o","s">>, <<"d","i","r","t","o","l">> } THEN AngleSuffixes
  ELSE IF name \in { <<"d","c","u","t","o","f","f">>, <<"d","c","u","t","o","f","f","u","p">> } THEN LengthSuffixes
  ELSE IF name = <<"t","e","m","p">> THEN TempSuffixes
  ELSE {}

SuffixCases == [name : SuffixParNames, suffix : Suffixes]

\* "name=1suffix"
SuffixText(c) == c.name \o <<"=","1">> \o c.suffix

SuffixStrInputs == { SuffixText(c) : c \in SuffixCases }

\* h.applyStrCfg(s) on a table with fewer than MaxSuffixPars parameters set
ApplyStrCfgFew(h, s) ==
  /\ Bound(h)
  /\ Cardinality(SetPars(TableOf(h))) < MaxSuffixPars
  /\ ApplyStrCfg(h, s)

NextSuffix == \E h \in Handles, s \in SuffixStrInputs : ApplyStrCfgFew(h, s)

SpecSuffix == Init /\ [][NextSuffix]_vars

\* C33: "name=1suffix" is accepted if and only if the suffix is one of those
\* tabulated for the unit class of the parameter (or there is none): a suffix
\* of another class, an unknown suffix and any suffix on packfact, mosprec or
\* sccutoff is rejected with BadInput.
C33_UnitSuffix ==
  \A c \in SuffixCases :
     last.op = "applyStrCfg" /\ last.arg = SuffixText(c)
     => IF c.suffix = <<>> \/ c.suffix \in SuffixesFor(c.name)
        THEN /\ last.err = "ok"
             /\ ParOf(c.name) \in SetPars(TableOf(last.h))
             /\ TextOf(TableOf(last.h).m_parlist[ParOf(c.name)]) = <<"1">> \o c.suffix
        ELSE last.err = "BadInput"

\* dcutoffup=1nm has been accepted as 10 Aa.
C33_Witness ==
  /\ last.op = "applyStrCfg" /\ last.arg = <<"d","c","u","t","o","f","f","u","p","=","1","n","m">> /\ last.err = "ok"
  /\ GetAfter(PAR_dcutoffup) = Norm(1, 1)

(***************************************************************************)
(* Sub-options of string parameter values (SpecOpts)                       *)
(***************************************************************************)

MaxOptParts == 2

\* A flag, flags in capitals, with a digit, starting with a digit, with an
\* underscore and between blanks; an option, options with a name in
\* capitals, without value, without name, with '=' in the value, with two
\* '@' and between blanks; and nothing.
OptParts ==
  { <<"f">>, <<"F">>, <<"f","1">>, <<"1","f">>, <<"f","_","2">>, <<" ","f"," ">>, <<"o","@","1">>, <<"O","@","1">>, <<"o","@">>, <<"@","1">>, <<"o","@","a","=","b">>, <<"o","@","1","@","2">>,
    <<" ","o"," ","@"," ","1"," ">>, <<"f","@","1">>, <<>> }

\* The parts after "name", each with a ':' before it.
RECURSIVE JoinOpts(_, _)
JoinOpts(s, parts) ==
  IF parts = <<>> THEN s ELSE JoinOpts(s \o <<":">> \o Head(parts), Tail(parts))

OptStrs ==
  { JoinOpts(<<"n","a","m","e">>, parts) :
      parts \in UNION { [1..n -> OptParts] : n \in 0..MaxOptParts } }

\* A value of a string parameter is at hand.
InitOpts ==
  \E optstr \in OptStrs :
     /\ heap = <<>>
     /\ m_impl = [h \in Handles |-> 0]
     /\ last = Outcome("optstr", "cfg1", optstr, "ok", NULL, <<>>, [h \in Handles |-> 0])

\* decodeopts(optstr, opts2val)
DecodeOpts ==
  /\ last.op = "optstr"
  /\ last' = Outcome("decodeopts", "cfg1", last.arg,
                     IF decodeopts(last.arg).ok THEN "ok" ELSE "BadInput",
                     decodeopts(last.arg).opts, <<>>, m_impl)
  /\ UNCHANGED <<heap, m_impl>>

NextOpts == DecodeOpts

SpecOpts == InitOpts /\ [][NextOpts]_vars

\* The text before the first c of s (all of s if it holds none), and the
\* text after it.
RECURSIVE BeforeChar(_, _)
BeforeChar(s, c) ==
  IF s = <<>> \/ Head(s) = c THEN <<>> ELSE <<Head(s)>> \o BeforeChar(Tail(s), c)

AfterChar(s, c) == SubSeq(s, Len(BeforeChar(s, c)) + 2, Len(s))

\* The sub-options of the value: the texts between its ':' after the first,
\* without the blanks around them, those that are empty left out.
RECURSIVE SubOptions(_)
SubOptions(s) ==
  IF ~contains(s, ":") THEN <<>>
  ELSE (IF trim(BeforeChar(AfterChar(s, ":"), ":")) = <<>> THEN <<>>
        ELSE <<trim(BeforeChar(AfterChar(s, ":"), ":"))>>)
       \o SubOptions(AfterChar(s, ":"))

\* The name of a sub-option: the flag, or the text before the '@'.
OptName(item) == trim(BeforeChar(item, "@"))

\* name matches [a-z][a-z0-9_]*
IsOptName(name) ==
  /\ name # <<>>
  /\ name[1] \in Range(<<"a","b","c","d","e","f","g","h","i","j","k","l","m","n","o","p","q","r","s","t","u","v","w","x","y","z">>)
  /\ Range(name) \subseteq Range(<<"a","b","c","d","e","f","g","h","i","j","k","l","m","n","o","p","q","r","s","t","u","v","w","x","y","z","0","1","2","3","4","5","6","7","8","9","_">>)

\* The value of an option is not empty and holds none of < > : = (nor a
\* second '@').
IsOptValue(item) ==
  /\ trim(AfterChar(item, "@")) # <<>>
  /\ Range(AfterChar(item, "@")) \cap {"<", ">", ":", "=", "@"} = {}

\* The sub-options are well formed: the names of flags and options match,
\* the values of options are in order, no name occurs twice.
WellFormedOpts(items) ==
  /\ \A i \in DOMAIN items :
        /\ IsOptName(OptName(items[i]))
        /\ contains(items[i], "@") => IsOptValue(items[i])
  /\ \A i, j \in DOMAIN items : i # j => OptName(items[i]) # OptName(items[j])

\* C34: a value whose sub-options are not well formed is rejected with
\* BadInput, whether by the name of a flag or of an option, by the value of
\* an option or by a name that occurs twice; a value whose sub-options are
\* well formed is decoded.
C34_SubOptions ==
  last.op = "decodeopts"
  => (last.err = "ok" <=> WellFormedOpts(SubOptions(last.arg)))
     /\ last.err \in {"ok", "BadInput"}


(***************************************************************************)
(* A set of one parameter that fails (SpecFailedSet)                       *)
(***************************************************************************)

\* Entries that are accepted and entries that are rejected: an invalid unit,
\* a text that is no number, NaN, a bad boolean, a vector of two numbers, an
\* orientation without its parts, and an atomdb value whose second line is
\* rejected.
FailedSetStrInputs ==
  { <<"m","o","s","=","1","d","e","g">>, <<"m","o","s","=","1","m">>, <<"t","e","m","p","=","a","b","c">>, <<"t","e","m","p","=","n","a","n">>, <<"c","o","h","_","e","l","a","s","=","m","a","y","b","e">>,
    <<"l","c","a","x","i","s","=","0",",","0">>, <<"d","i","r","1","=","1">>, <<"a","t","o","m","d","b","=","H",":","i","s",":","D">>, <<"a","t","o","m","d","b","=","H",":","i","s",":","D","@","n","o","d","e","f","a","u","l","t","s">> }

\* set_temp(293.15), set_temp(NaN)
FailedSetInputs == { <<PAR_temp, Norm(29315, -2)>>, <<PAR_temp, NaN>> }

NextFailedSet ==
  \/ \E h \in Handles, s \in FailedSetStrInputs : ApplyStrCfg(h, s)
  \/ \E h \in Handles, pv \in FailedSetInputs : Set(h, pv)

SpecFailedSet == Init /\ [][NextFailedSet]_vars

\* The parameter a call of applyStrCfg("name=value") or of a typed setter is
\* about.
ParameterOf(call) ==
  IF call.op = "set" THEN call.arg[1]
  ELSE strNameToParIdx(trim(BeforeChar(call.arg, "=")))

\* C35: when the set of one parameter P fails with BadInput, P is set
\* afterwards exactly if it was set before and holds the value it held.
C35_FailedSet ==
  [][(last'.op \in {"applyStrCfg", "set"} /\ last'.err = "BadInput")
     => heap'[m_impl'[last'.h]].m_parlist[ParameterOf(last')]
          = heap[m_impl[last'.h]].m_parlist[ParameterOf(last')]]_vars


(***************************************************************************)
(* The entries of applyStrCfg, in order (SpecEntries)                      *)
(***************************************************************************)

MaxEntries == 2

\* An entry that is applied, one that fails once its value is looked at, and
\* one that fails for its form.
EntryTexts == { <<"t","e","m","p","=","3","0","0">>, <<"t","e","m","p","=","a","b","c">>, <<"b","a","d">> }

JoinEntries(es) == joinstr(es, <<";">>)

\* The strings of up to MaxEntries entries, strings with empty and blank
\* entries, and strings with characters forbidden in the whole string.
EntryStrs ==
  UNION { { JoinEntries(es) : es \in [1..n -> EntryTexts] } : n \in 1..MaxEntries }
  \cup { <<" ",";","t","e","m","p","=","3","0","0">>, <<"t","e","m","p","=","3","0","0",";",";","b","a","d">>, <<" ",";"," ">>, <<"m","o","s","=","(","1",")">>, <<"t","e","m","p","=","3","0","0",";","m","o","s","=","(","1",")">> }

NextEntries ==
  \/ \E h \in Handles, s \in EntryStrs : ApplyStrCfg(h, s)
  \/ \E h, o \in Handles : CopyConstruct(h, o)

SpecEntries == Init /\ [][NextEntries]_vars

\* The string fails the checks made on it as a whole.
WholeRejected(s) ==
  ~isSimpleASCII(s, TRUE, TRUE) \/ contains_any(s, NCMATCFG_FORBIDDEN_CHARS)

\* The entries of the string: its parts between ';' without the blanks around
\* them, the empty ones left out.
Entries(s) ==
  LET parts == split(s, 0, ";")
  IN SelectSeq([i \in 1..Len(parts) |-> trim(parts[i])], LAMBDA e : e # <<>>)

EntryName(e) == trim(BeforeChar(e, "="))

EntryValue(e) == trim(AfterChar(e, "="))

\* name=value with one '=' and a name.
WellFormedEntry(e) ==
  contains(e, "=") /\ ~contains(AfterChar(e, "="), "=") /\ EntryName(e) # <<>>

\* One entry applied alone to a table.
EntryApplied(impl, e) ==
  IF ~WellFormedEntry(e) THEN [err |-> "BadInput", impl |-> impl]
  ELSE setValByStr(impl, EntryName(e), EntryValue(e), CHOOSE g \in Indeterminate : TRUE)

\* The entries from the j-th on applied one after the other, up to the first
\* that fails: failed is its index (0 when none fails), impl the table as the
\* entries before it leave it.
RECURSIVE EntriesInOrder(_, _, _)
EntriesInOrder(impl, es, j) ==
  IF j > Len(es) THEN [failed |-> 0, impl |-> impl, err |-> "ok"]
  ELSE LET Continue(a) ==
             IF a.err # "ok" THEN [failed |-> j, impl |-> impl, err |-> a.err]
             ELSE EntriesInOrder(a.impl, es, j + 1)
       IN Continue(EntryApplied(impl, es[j]))

\* The entries the call got to: all of them, or those up to the failing one.
EntriesTried(es, x) == IF x.failed = 0 THEN 1..Len(es) ELSE 1..x.failed

\* The order of the entries and what a failure leaves, for a step that is a
\* call of applyStrCfg through h, x being what
\* EntriesInOrder gives for it: a string rejected as a whole changes
\* nothing; otherwise the call fails as its first failing entry does, and
\* every parameter is as the entries before it leave it (the parameter of the
\* failing entry aside, when they leave it unset).
EntriesInOrderStep(h, x) ==
  LET s == last'.arg
      post == heap'[m_impl'[h]]
      es == Entries(s)
  IN IF WholeRejected(s)
     THEN last'.err = "BadInput" /\ heap' = heap /\ m_impl' = m_impl
     ELSE /\ last'.err = x.err
          /\ \A p \in SetPars(post) \cup SetPars(x.impl) :
               \/ post.m_parlist[p] = x.impl.m_parlist[p]
               \/ /\ x.failed # 0 /\ p = strNameToParIdx(EntryName(es[x.failed]))
                  /\ x.impl.m_parlist[p] = NULL

\* The handle has left the table it was bound to for a copy of its own, and
\* the table is otherwise as it was.
CloneTaken(h) ==
  /\ m_impl'[h] # m_impl[h]
  /\ heap'[m_impl'[h]].refCount = 1
  /\ heap'[m_impl[h]] = [heap[m_impl[h]] EXCEPT !.refCount = @ - 1]

RefCtorInputs == { <<"a",".","n","c","m","a","t">>, <<"a",".","n","c","m","a","t",";","f","o","o","=","1">>, <<>> }

\* "temp=300", "foo=1" (fails after cow()) and " ; " (no entry at all)
RefStrInputs == { <<"t","e","m","p","=","3","0","0">>, <<"f","o","o","=","1">>, <<" ",";"," ">> }

NextRefs ==
  \/ \E h \in Handles, s \in RefCtorInputs : Construct(h, s)
  \/ \E h, o \in Handles : CopyConstruct(h, o)
  \/ \E h, o \in Handles : Assign(h, o)
  \/ \E h \in Handles : Destroy(h)
  \/ \E h \in Handles, pv \in SetInputs : Set(h, pv)
  \/ \E h \in Handles, s \in RefStrInputs : ApplyStrCfg(h, s)

SpecRefs == Init /\ [][NextRefs]_vars

\* The handles bound to table id.
HandlesOf(id) == { h \in Handles : m_impl[h] = id }

\* C37: every table that exists is counted by exactly the handles bound to
\* it, and there is at least one; every bound handle's table exists; a
\* constructor that threw has left no handle bound and no table behind; and
\* after a setter that went through cow() has returned, the handle's table
\* has the count 1.
C37_RefCount ==
  /\ \A id \in DOMAIN heap :
       heap[id].refCount = Cardinality(HandlesOf(id)) /\ heap[id].refCount >= 1
  /\ \A h \in Handles : Bound(h) => m_impl[h] \in DOMAIN heap
  /\ (last.op = "MatCfg" /\ last.err # "ok")
     => /\ ~Bound(last.h)
        /\ Cardinality(DOMAIN heap) = Cardinality({ last.pre[h] : h \in Handles } \ {0})
  /\ (/\ last.err = "ok"
      /\ \/ last.op = "set"
         \/ last.op = "applyStrCfg" /\ Entries(last.arg) # <<>>)
     => TableOf(last.h).refCount = 1

\* A setter through one of two handles sharing a table has returned: each
\* handle now has a table of its own.
C37_Witness ==
  /\ last.op = "set" /\ last.err = "ok"
  /\ \E o \in Handles \ {last.h} :
       /\ last.pre[o] = last.pre[last.h]
       /\ Bound(o) /\ m_impl[o] # m_impl[last.h]
       /\ TableOf(o).refCount = 1 /\ TableOf(last.h).refCount = 1


(***************************************************************************)
(* Access spies and the handles of one table (SpecShared)                  *)
(***************************************************************************)

\* hasAccessSpy(spy)
hasAccessSpy(impl, spy) ==
  [err |-> "ok", res |-> spy \in Range(impl.m_spies), notes |-> <<>>]

\* h.hasAccessSpy(spy)
HasAccessSpy(h, spy) ==
  /\ Bound(h)
  /\ Read("hasAccessSpy", h, spy, hasAccessSpy(TableOf(h), spy), TableOf(h))

\* The spies given to addAccessSpy: two objects and the null pointer.
SpyInputs == Spies \cup {"null"}

SharedGetInputs == {PAR_temp, PAR_atomdb}

NextShared ==
  \/ \E h, o \in Handles : CopyConstruct(h, o)
  \/ \E h \in Handles, spy \in SpyInputs : AddAccessSpy(h, spy)
  \/ \E h \in Handles, spy \in Spies : RemoveAccessSpy(h, spy)
  \/ \E h \in Handles, spy \in Spies : HasAccessSpy(h, spy)
  \/ \E h \in Handles, par \in SharedGetInputs : Get(h, par)
  \/ \E h \in Handles, pv \in SetInputs : Set(h, pv)

SpecShared == Init /\ [][NextShared]_vars

\* The handles bound to the table that h is bound to.
Sharing(h) == { o \in Handles : m_impl[o] = m_impl[h] }

\* The list without the spy, the others in their order.
WithoutSpy(spies, spy) == SelectSeq(spies, LAMBDA x : x # spy)

\* C38: the spies are the table's.  A spy added through a handle is in the
\* list of every handle bound to the same table, a copy of a handle has the
\* list of the handle copied, a typed read through any handle notifies the
\* spies of its table, hasAccessSpy tells whether the spy is in the table's
\* list, removeAccessSpy takes it out of the list for every handle of the
\* table, and a handle that leaves its table by copy-on-write has a table
\* without spies.  Adding the null spy or a spy of the list fails with
\* BadInput, and so does removing a spy that is not in the list; neither
\* changes anything.
C38_SpiesOfTable ==
  [][LET h == last'.h
         spies == heap[m_impl[h]].m_spies
         SpiesAfter(o) == heap'[m_impl'[o]].m_spies
     IN /\ last'.op = "addAccessSpy"
           => IF last'.arg = "null" \/ last'.arg \in Range(spies)
              THEN last'.err = "BadInput" /\ heap' = heap /\ m_impl' = m_impl
              ELSE /\ last'.err = "ok" /\ m_impl' = m_impl
                   /\ \A o \in Sharing(h) : SpiesAfter(o) = Append(spies, last'.arg)
        /\ last'.op = "removeAccessSpy"
           => IF last'.arg \notin Range(spies)
              THEN last'.err = "BadInput" /\ heap' = heap /\ m_impl' = m_impl
              ELSE /\ last'.err = "ok" /\ m_impl' = m_impl
                   /\ \A o \in Sharing(h) : SpiesAfter(o) = WithoutSpy(spies, last'.arg)
        /\ last'.op = "hasAccessSpy"
           => /\ last'.res = (last'.arg \in Range(spies))
              /\ heap' = heap /\ m_impl' = m_impl
        /\ last'.op = "get"
           => /\ last'.notes = Notified(spies, <<last'.arg>>)
              /\ heap' = heap /\ m_impl' = m_impl
        /\ last'.op = "MatCfg(const MatCfg&)"
           => /\ m_impl'[h] = m_impl[last'.arg]
              /\ SpiesAfter(h) = heap[m_impl[last'.arg]].m_spies
        /\ (last'.op = "set" /\ m_impl'[h] # m_impl[h])
           => /\ SpiesAfter(h) = <<>>
              /\ heap'[m_impl[h]].m_spies = spies]_vars

\* A read through cfg2 has notified a spy, cfg1 and cfg2 being bound to the
\* same table, and it is cfg1 that holds the spy as well.
C38_Witness ==
  /\ last.op = "get" /\ last.h = "cfg2" /\ last.err = "ok"
  /\ m_impl["cfg1"] = m_impl["cfg2"]
  /\ last.notes = <<<<"spyA", parnames[last.arg]>>>>
  /\ TableOf("cfg1").m_spies = <<"spyA">>


(***************************************************************************)
(* The cache of final G4 materials (SpecG4)                                *)
(***************************************************************************)

G4Threads == {"t1", "t2"}

MaxG4Calls == 2

\* The cache keys of the configurations given to createMaterial: the unique
\* id of the Info object with the text of toStrCfg(true).  The Info object of
\* the last one lacks a density.
G4Keys == {"k1", "k2", "nodensity"}

\* G4ObjectProvider(): m_g4finalmaterials is empty, 0 standing for a key that
\* is not in the map.
G4ObjectProvider_ctor == [k \in G4Keys |-> 0]

\* The statics of the file and Geant4's material table at program start, with
\* every thread outside createMaterial and clearG4ObjCache.  mat is the local
\* variable of getFinalMaterialImpl, returned what createMaterial returned
\* last (0 for the null pointer).
G4Statics ==
  [m_g4finalmaterials |-> G4ObjectProvider_ctor, MaterialTable |-> <<>>,
   m_mutex |-> "free", first |-> FALSE, nregistered |-> 0,
   pc |-> [t \in G4Threads |-> "idle"], key |-> [t \in G4Threads |-> "k1"],
   ncalls |-> [t \in G4Threads |-> 0], mat |-> [t \in G4Threads |-> 0],
   returned |-> [t \in G4Threads |-> 0]]

ensureCacheClearFctRegistered(d) ==
  IF d.first THEN d ELSE [d EXCEPT !.first = TRUE, !.nregistered = @ + 1]

\* A lookup that never finds the material.
getFinalMaterialImpl_find_never(d, cache_key) == 0

\* m_g4finalmaterials.find(cache_key) and the test of the table entry: the
\* index of the material when it was created and is still alive, else 0.
getFinalMaterialImpl_find(d, cache_key) ==
  IF d.m_g4finalmaterials[cache_key] # 0
     /\ d.MaterialTable[d.m_g4finalmaterials[cache_key]].alive
  THEN d.m_g4finalmaterials[cache_key]
  ELSE 0

\* getFinalMaterialImpl of thread t, from its position pc[t]: the lookup, the
\* registration of the cleanup function and the test of the density, the new
\* G4Material, and its entry in the cache.
getFinalMaterialImpl(d, t) ==
  IF d.pc[t] = "find"
  THEN (IF getFinalMaterialImpl_find(d, d.key[t]) # 0
        THEN [d EXCEPT !.pc[t] = "return",
                       !.mat[t] = getFinalMaterialImpl_find(d, d.key[t])]
        ELSE [d EXCEPT !.pc[t] = "register"])
  ELSE IF d.pc[t] = "register"
  THEN [ensureCacheClearFctRegistered(d) EXCEPT
          !.pc[t] = IF d.key[t] = "nodensity" THEN "throw" ELSE "new"]
  ELSE IF d.pc[t] = "new"
  THEN [d EXCEPT !.MaterialTable = Append(@, [key |-> d.key[t], alive |-> TRUE]),
                 !.mat[t] = Len(d.MaterialTable) + 1,
                 !.pc[t] = "insert"]
  ELSE [d EXCEPT !.m_g4finalmaterials[d.key[t]] = d.mat[t], !.pc[t] = "return"]

\* createMaterial(cfg) of thread t, from its position pc[t]: the lock, the
\* steps of getFinalMaterial, and the return or the exception, which both
\* release the lock.
createMaterial(d, t) ==
  IF d.pc[t] = "create" THEN [lock_guard(d, t).d EXCEPT !.pc[t] = "find"]
  ELSE IF d.pc[t] = "return"
  THEN [lock_guard_release(d, t) EXCEPT !.pc[t] = "idle", !.returned[t] = d.mat[t]]
  ELSE IF d.pc[t] = "throw"
  THEN [lock_guard_release(d, t) EXCEPT !.pc[t] = "idle", !.returned[t] = 0]
  ELSE getFinalMaterialImpl(d, t)

\* clearG4ObjCache() of thread t, from its position pc[t].
clearG4ObjCache(d, t) ==
  IF d.pc[t] = "clear" THEN [lock_guard(d, t).d EXCEPT !.pc[t] = "reset"]
  ELSE [lock_guard_release(d, t) EXCEPT
          !.m_g4finalmaterials = G4ObjectProvider_ctor, !.pc[t] = "idle"]

\* A step of thread t has left the statics as d.
G4Step(op, t, arg, d) ==
  last' = Outcome(op, t, arg, "ok", d, <<>>, m_impl) /\ UNCHANGED <<heap, m_impl>>

\* Thread t calls createMaterial with a configuration of key k.
G4CallCreate(t, k) ==
  /\ last.res.pc[t] = "idle"
  /\ last.res.ncalls[t] < MaxG4Calls
  /\ G4Step("call", t, k,
            [last.res EXCEPT !.pc[t] = "create", !.key[t] = k, !.ncalls[t] = @ + 1])

\* Thread t calls clearG4ObjCache (through NCrystal's clearCaches).
G4CallClear(t) ==
  /\ last.res.pc[t] = "idle"
  /\ last.res.ncalls[t] < MaxG4Calls
  /\ G4Step("call", t, "clear", [last.res EXCEPT !.pc[t] = "clear", !.ncalls[t] = @ + 1])

\* Thread t takes its next step in createMaterial.
G4Create(t) ==
  /\ last.res.pc[t] \in {"create", "find", "register", "new", "insert", "return", "throw"}
  /\ last.res.pc[t] = "create" => lock_guard(last.res, t).acquired
  /\ G4Step("createMaterial", t, last.res.key[t], createMaterial(last.res, t))

\* Thread t takes its next step in clearG4ObjCache.
G4Clear(t) ==
  /\ last.res.pc[t] \in {"clear", "reset"}
  /\ last.res.pc[t] = "clear" => lock_guard(last.res, t).acquired
  /\ G4Step("clearG4ObjCache", t, NULL, clearG4ObjCache(last.res, t))

\* Client code deletes the G4Material of index i: Geant4 leaves a null
\* pointer at its place in the table.
G4DeleteMaterial(i) ==
  /\ i \in 1..Len(last.res.MaterialTable)
  /\ last.res.MaterialTable[i].alive
  /\ G4Step("delete", "t1", i, [last.res EXCEPT !.MaterialTable[i].alive = FALSE])

InitG4 ==
  /\ heap = <<>>
  /\ m_impl = [h \in Handles |-> 0]
  /\ last = Outcome("G4ObjectProvider", "t1", <<>>, "ok", G4Statics, <<>>,
                    [h \in Handles |-> 0])

NextG4 ==
  \/ \E t \in G4Threads, k \in G4Keys : G4CallCreate(t, k)
  \/ \E t \in G4Threads : G4CallClear(t)
  \/ \E t \in G4Threads : G4Create(t)
  \/ \E t \in G4Threads : G4Clear(t)
  \/ \E i \in 1..(MaxG4Calls * Cardinality(G4Threads)) : G4DeleteMaterial(i)

SpecG4 == InitG4 /\ [][NextG4]_vars

\* The threads between taking and releasing the mutex.
G4InCritical(d) ==
  { t \in G4Threads :
      d.pc[t] \in {"find", "register", "new", "insert", "return", "throw", "reset"} }

\* C39: at most one thread is between taking and releasing the mutex, and it
\* holds it; the cache changes only in a step of the thread holding the
\* mutex; a material is created only when the cache has no material alive
\* for the key, and is entered for its key; createMaterial returns the
\* material the cache holds for the key, which was created for that key; and
\* the cleanup function is registered at most once.
C39_MaterialCache ==
  [][LET d == last.res
         e == last'.res
         t == last'.h
     IN /\ Cardinality(G4InCritical(e)) <= 1
        /\ \A u \in G4InCritical(e) : e.m_mutex = u
        /\ e.m_g4finalmaterials # d.m_g4finalmaterials => d.m_mutex = t
        /\ Len(e.MaterialTable) > Len(d.MaterialTable)
           => /\ d.m_mutex = t
              /\ \/ d.m_g4finalmaterials[d.key[t]] = 0
                 \/ ~d.MaterialTable[d.m_g4finalmaterials[d.key[t]]].alive
              /\ e.MaterialTable[Len(e.MaterialTable)].key = d.key[t]
        /\ (last'.op = "createMaterial" /\ d.pc[t] = "return")
           => /\ e.returned[t] = d.m_g4finalmaterials[d.key[t]]
              /\ d.MaterialTable[e.returned[t]].key = d.key[t]
        /\ e.nregistered <= 1]_vars

\* Both threads have called createMaterial with the key k1 and have the same
\* material returned, the only one in the table.
C39_Witness ==
  /\ last.op = "createMaterial"
  /\ \A t \in G4Threads :
       /\ last.res.pc[t] = "idle" /\ last.res.key[t] = "k1"
       /\ last.res.ncalls[t] = 1 /\ last.res.returned[t] = 1
  /\ Len(last.res.MaterialTable) = 1
  /\ last.res.nregistered = 1

=============================================================================
